---- MODULE Spec2Model ----
(***************************************************************************)
(* Model of app/main_backup_v2.py:                                         *)
(*   _add_node / _edge_key / _merge_edge   (the node and edge merge rules) *)
(*   _normalize_sources / build_network    (the build pipeline)            *)
(*   _build_graph / _prune_network         (the node budget)               *)
(*   _cache_key / _sleep_if_needed / cached_request  (the response cache)  *)
(*   communities                           (the community partition)       *)
(*   _reg_edge_weight_v1 / _default_min_coverage_v1 / _regulon_overlap_v1  *)
(*   / regulon_v1                          (the regulon overlap scorer)    *)
(*                                                                         *)
(* Strings that the code compares or re-cases (node identifiers) are       *)
(* sequences of code points, so that Python's str "<" and str.upper() are  *)
(* computed and not assumed.  A Python dict is a sequence of entries in    *)
(* insertion order, an Optional value is <<>> (None) or <<v>>.             *)
(***************************************************************************)
EXTENDS Integers, Sequences, FiniteSets, TLC

VARIABLES
    nodes,      \* build_network's `nodes` dict: Node entries in insertion order
    edges,      \* build_network's `edges` dict: [key, e] entries in insertion order
    log,        \* history: the calls folded into nodes/edges so far, in order
    pc,         \* build_network: the statement the request has reached
    req,        \* build_network: its arguments
    calls,      \* build_network: the adapter calls issued so far, in order
    outcome,    \* build_network: what it returned or raised
    pin,        \* _prune_network: its arguments as passed
    pout,       \* _prune_network: what it returned, and its argument after the call
    cache,      \* CACHE_DIR: fingerprint -> [bytes, mtime] of the file <fingerprint>.bin
    clock,      \* time.time()
    _HOST_LAST_CALL,        \* the module's dict host -> time of the last call
    POLITE_DELAY_SECONDS,   \* the module's setting, fixed when the module is loaded
    threads,    \* the worker threads: where each is in cached_request, and its locals
    trace,      \* history: what the calls of cached_request did, in order
    kin,        \* _cache_key: the arguments of two calls
    kout,       \* _cache_key: the two fingerprints returned
    cin,        \* communities: the partition the algorithm produced, and min_size
    cout,       \* communities: its return value
    oin,        \* fusion: the input of two runs that differ in order only
    oout,       \* fusion: the node and edge maps of the two runs
    rin,        \* regulon_v1: the network build_network returned, and the parameters
    rout        \* regulon_v1: its return value

fuseVars  == <<nodes, edges, log>>
buildVars == <<pc, req, calls, outcome>>
pruneVars == <<pin, pout>>
cacheVars == <<cache, clock, _HOST_LAST_CALL, POLITE_DELAY_SECONDS, threads, trace>>
keyVars   == <<kin, kout>>
commVars  == <<cin, cout>>
orderVars == <<oin, oout>>
regVars   == <<rin, rout>>
notCacheVars == <<fuseVars, buildVars, pruneVars, keyVars, commVars, orderVars, regVars>>
vars      == <<nodes, edges, log, pc, req, calls, outcome, pin, pout,
               cache, clock, _HOST_LAST_CALL, POLITE_DELAY_SECONDS, threads, trace,
               kin, kout, cin, cout, oin, oout, rin, rout>>

-----------------------------------------------------------------------------
(* Bounds of the model.                                                    *)

MaxRecords == 3     \* calls folded in one behaviour of Spec
MaxBudget  == 3     \* largest max_nodes tried
MaxChunks  == 2     \* most chunks string_partners_chunked splits a pass-2 query into

-----------------------------------------------------------------------------
(* Strings as sequences of code points.                                    *)

IdA  == <<65>>          \* "A"
IdB  == <<66>>          \* "B"
IdC  == <<67>>          \* "C"
IdD  == <<68>>          \* "D"
IdLa == <<97>>          \* "a"
IdAB == <<65, 66>>      \* "AB"

Min(a, b) == IF a <= b THEN a ELSE b

\* Python's str.__lt__: lexicographic by code point, a proper prefix is smaller.
StrLess(s, t) ==
    \/ /\ Len(s) < Len(t)
       /\ \A j \in 1..Len(s) : s[j] = t[j]
    \/ \E i \in 1..Min(Len(s), Len(t)) :
          /\ s[i] < t[i]
          /\ \A j \in 1..(i - 1) : s[j] = t[j]

\* Python's str.upper() on ASCII letters.
Upper(s) == [i \in DOMAIN s |-> IF s[i] \in 97..122 THEN s[i] - 32 ELSE s[i]]

None == <<>>
Some(x) == <<x>>

InSeq(x, s) == \E i \in DOMAIN s : s[i] = x
Range(s) == {s[i] : i \in DOMAIN s}

-----------------------------------------------------------------------------
(* Data structures and the merge rules.                                    *)

Node(id, label, kind, sources) ==
    [id |-> id, label |-> label, kind |-> kind, sources |-> sources]

\* Edge(...) with the dataclass default support=1.
Edge(source, target, kind, source_db, score, meta) ==
    [source |-> source, target |-> target, kind |-> kind, source_db |-> source_db,
     score |-> score, support |-> 1, meta |-> meta]

HasNode(ns, node_id) == \E i \in DOMAIN ns : ns[i].id = node_id
NodeAt(ns, node_id) == CHOOSE i \in DOMAIN ns : ns[i].id = node_id

\* _add_node without the `source_db not in n.sources` test.
_add_node_dup_sources(ns, node_id, label, kind, source_db) ==
    IF HasNode(ns, node_id)
    THEN LET i == NodeAt(ns, node_id)
             n == ns[i]
         IN  [ns EXCEPT ![i] = [n EXCEPT
                 !.sources = Append(n.sources, source_db),
                 !.kind = IF n.kind = "unknown" /\ kind # "unknown" THEN kind ELSE n.kind]]
    ELSE Append(ns, Node(node_id, label, kind, <<source_db>>))

\* _add_node assigning every concrete kind it is given.
_add_node_overwrite_kind(ns, node_id, label, kind, source_db) ==
    IF HasNode(ns, node_id)
    THEN LET i == NodeAt(ns, node_id)
             n == ns[i]
         IN  [ns EXCEPT ![i] = [n EXCEPT
                 !.sources = IF InSeq(source_db, n.sources) THEN n.sources
                             ELSE Append(n.sources, source_db),
                 !.kind = IF kind # "unknown" THEN kind ELSE n.kind]]
    ELSE Append(ns, Node(node_id, label, kind, <<source_db>>))

_add_node(ns, node_id, label, kind, source_db) ==
    IF HasNode(ns, node_id)
    THEN LET i == NodeAt(ns, node_id)
             n == ns[i]
         IN  [ns EXCEPT ![i] = [n EXCEPT
                 !.sources = IF InSeq(source_db, n.sources) THEN n.sources
                             ELSE Append(n.sources, source_db),
                 !.kind = IF n.kind = "unknown" /\ kind # "unknown" THEN kind ELSE n.kind]]
    ELSE Append(ns, Node(node_id, label, kind, <<source_db>>))

\* _edge_key without the swap.
_edge_key_ordered(u, v, kind, db) == <<u, v, kind, db>>

_edge_key(u, v, kind, db) ==
    IF StrLess(v, u) THEN <<v, u, kind, db>> ELSE <<u, v, kind, db>>

HasEdge(es, key) == \E i \in DOMAIN es : es[i].key = key
EdgeAt(es, key) == CHOOSE i \in DOMAIN es : es[i].key = key

\* _merge_edge taking every non-null incoming score.
_merge_edge_last_score(es, e) ==
    LET key == _edge_key(e.source, e.target, e.kind, e.source_db) IN
    IF HasEdge(es, key)
    THEN LET i == EdgeAt(es, key)
             old == es[i].e
         IN  [es EXCEPT ![i].e = [old EXCEPT
                 !.support = old.support + 1,
                 !.score = IF e.score # None THEN e.score ELSE old.score]]
    ELSE Append(es, [key |-> key, e |-> e])

\* _merge_edge taking the meta of the incoming record.
_merge_edge_last_meta(es, e) ==
    LET key == _edge_key(e.source, e.target, e.kind, e.source_db) IN
    IF HasEdge(es, key)
    THEN LET i == EdgeAt(es, key)
             old == es[i].e
         IN  [es EXCEPT ![i].e = [old EXCEPT
                 !.support = old.support + 1,
                 !.meta = e.meta,
                 !.score = IF e.score # None
                              /\ (old.score = None \/ e.score[1] > old.score[1])
                           THEN e.score ELSE old.score]]
    ELSE Append(es, [key |-> key, e |-> e])

_merge_edge(es, e) ==
    LET key == _edge_key(e.source, e.target, e.kind, e.source_db) IN
    IF HasEdge(es, key)
    THEN LET i == EdgeAt(es, key)
             old == es[i].e
         IN  [es EXCEPT ![i].e = [old EXCEPT
                 !.support = old.support + 1,
                 !.score = IF e.score # None
                              /\ (old.score = None \/ e.score[1] > old.score[1])
                           THEN e.score ELSE old.score]]
    ELSE Append(es, [key |-> key, e |-> e])

\* The kinds build_network gives the two endpoints of a record of each edge kind.
EndKinds(kind) ==
    CASE kind = "ppi"        -> <<"protein", "protein">>
      [] kind = "rbp_target" -> <<"protein", "rna">>
      [] OTHER               -> <<"rna", "rna">>

\* One interaction record folded: _add_node for both endpoints, then _merge_edge.
FoldNodes(ns, r) ==
    _add_node(_add_node(ns, r.source, r.source, EndKinds(r.kind)[1], r.source_db),
              r.target, r.target, EndKinds(r.kind)[2], r.source_db)

FoldEdges(es, r) ==
    _merge_edge(es, Edge(r.source, r.target, r.kind, r.source_db, r.score, r.meta))

-----------------------------------------------------------------------------
(* Spec: any sequence of up to MaxRecords folds and lone _add_node calls.  *)

\* Endpoint pairs of the records: both orientations of one pair, a pair whose
\* first identifier differs from "A" in letter case only, and a self-loop.
FusePairs == {<<IdA, IdB>>, <<IdB, IdA>>, <<IdLa, IdB>>, <<IdA, IdA>>}
AddIds    == {IdA}
\* Kind and source_db of the records: two that differ in source_db only, two that
\* differ in kind only.
RecordTypes == {<<"ppi", "STRING">>, <<"ppi", "ENCORI">>, <<"rbp_target", "ENCORI">>}
SourceDbs == {"STRING", "ENCORI"}
NodeKinds == {"unknown", "protein", "rna"}
Scores    == {None, Some(4), Some(9)}

FuseInit == nodes = <<>> /\ edges = <<>> /\ log = <<>>
FuseIdle == FuseInit
BuildIdle == pc = "idle" /\ req = <<>> /\ calls = <<>> /\ outcome = <<>>
PruneIdle == pin = <<>> /\ pout = <<>>
CacheIdle ==
    /\ cache = <<>> /\ clock = 0 /\ _HOST_LAST_CALL = <<>> /\ POLITE_DELAY_SECONDS = 0
    /\ threads = <<>> /\ trace = <<>>
KeyIdle   == kin = <<>> /\ kout = <<>>
CommIdle  == cin = <<>> /\ cout = <<>>
OrderIdle == oin = <<>> /\ oout = <<>>
RegIdle   == rin = <<>> /\ rout = <<>>

\* A record arrives and is folded; its meta identifies the record (its position).
Fold ==
    /\ Len(log) < MaxRecords
    /\ \E p \in FusePairs, t \in RecordTypes, sc \in Scores :
          LET r == [op |-> "fold", source |-> p[1], target |-> p[2], kind |-> t[1],
                    source_db |-> t[2], score |-> sc, meta |-> Len(log) + 1]
          IN  /\ nodes' = FoldNodes(nodes, r)
              /\ edges' = FoldEdges(edges, r)
              /\ log' = Append(log, r)
    /\ UNCHANGED <<buildVars, pruneVars, cacheVars, keyVars, commVars, orderVars, regVars>>

\* _add_node called on its own, with any kind.
AddNode ==
    /\ Len(log) < MaxRecords
    /\ \E id \in AddIds, k \in NodeKinds, db \in SourceDbs :
          /\ nodes' = _add_node(nodes, id, id, k, db)
          /\ log' = Append(log, [op |-> "add", id |-> id, kind |-> k, source_db |-> db])
    /\ UNCHANGED <<edges, buildVars, pruneVars, cacheVars, keyVars, commVars, orderVars, regVars>>

Init == FuseInit /\ BuildIdle /\ PruneIdle /\ CacheIdle /\ KeyIdle /\ CommIdle /\ OrderIdle /\ RegIdle
Next == Fold \/ AddNode
Spec == Init /\ [][Next]_vars

-----------------------------------------------------------------------------
(* _normalize_sources: the comma-separated `sources` parameter, already    *)
(* split on ",", to the list of supported source ids.                      *)

\* str.strip().lower() on the raw tokens of the model.
StripLower(tok) ==
    CASE tok = " "            -> ""
      [] tok = "PPI"          -> "ppi"
      [] tok = " Encori_RNA " -> "encori_rna"
      [] OTHER                -> tok

Alias(tok) ==
    CASE tok = "string"     -> "string_ppi"
      [] tok = "ppi"        -> "string_ppi"
      [] tok = "encori_rbp" -> "encori_rbp_by_target"
      [] tok = "encori_rna" -> "encori_rna_rna"
      [] OTHER              -> tok

SUPPORTED_SOURCES == {"string_ppi", "encori_rbp_by_target", "encori_rna_rna"}

RECURSIVE _normalize_sources(_)
_normalize_sources(toks) ==
    IF toks = <<>> THEN <<>>
    ELSE LET t == StripLower(Head(toks))
             rest == _normalize_sources(Tail(toks))
         IN  IF t = "" THEN rest
             ELSE IF Alias(t) \in SUPPORTED_SOURCES THEN <<Alias(t)>> \o rest
             ELSE rest

-----------------------------------------------------------------------------
(* _build_graph and _prune_network.                                        *)

IdsOf(nodeList) == [i \in DOMAIN nodeList |-> nodeList[i].id]

RECURSIVE AddEndpoints(_, _)
\* nx.Graph.add_edge adds an endpoint the graph does not have yet, u before v.
AddEndpoints(order, edgeList) ==
    IF edgeList = <<>> THEN order
    ELSE LET e == Head(edgeList)
             o1 == IF InSeq(e.source, order) THEN order ELSE Append(order, e.source)
             o2 == IF InSeq(e.target, o1) THEN o1 ELSE Append(o1, e.target)
         IN  AddEndpoints(o2, Tail(edgeList))

\* The nx.Graph of a network: its nodes in insertion order, and its adjacency
\* (parallel edges of the edge list are one edge of the graph).
_build_graph(network) ==
    [order |-> AddEndpoints(IdsOf(network.nodes), network.edges),
     adj   |-> {{network.edges[i].source, network.edges[i].target} :
                    i \in DOMAIN network.edges}]

\* nx degree: one per neighbour, two for a self-loop.
Degree(g, n) ==
    Cardinality({m \in Range(g.order) : m # n /\ {n, m} \in g.adj})
        + (IF {n} \in g.adj THEN 2 ELSE 0)

\* sorted(deg.items(), key=degree) without reverse=True: lowest degree first.
Ranked_ascending(g) ==
    LET o == g.order
        pos(i) == Cardinality({j \in DOMAIN o : Degree(g, o[j]) < Degree(g, o[i])})
                  + Cardinality({j \in DOMAIN o : j < i /\ Degree(g, o[j]) = Degree(g, o[i])})
                  + 1
    IN  [p \in DOMAIN o |-> o[CHOOSE i \in DOMAIN o : pos(i) = p]]

\* sorted(deg.items(), key=degree, reverse=True): a stable sort, so nodes of equal
\* degree stay in the graph's node order.
Ranked(g) ==
    LET o == g.order
        pos(i) == Cardinality({j \in DOMAIN o : Degree(g, o[j]) > Degree(g, o[i])})
                  + Cardinality({j \in DOMAIN o : j < i /\ Degree(g, o[j]) = Degree(g, o[i])})
                  + 1
    IN  [p \in DOMAIN o |-> o[CHOOSE i \in DOMAIN o : pos(i) = p]]

RECURSIVE KeepLoop(_, _, _)
\* for n, _d in ranked: if len(keep) >= max_nodes: break; keep.add(n)
KeepLoop(keep, ranked, max_nodes) ==
    IF ranked = <<>> \/ Cardinality(keep) >= max_nodes THEN keep
    ELSE KeepLoop(keep \cup {Head(ranked)}, Tail(ranked), max_nodes)

KeepSet(network, seeds, max_nodes) ==
    KeepLoop(Range(seeds), Ranked(_build_graph(network)), max_nodes)

\* nodes2 = [n for n in nodes if n["id"] in keep]
nodes2(node_list, keep) == SelectSeq(node_list, LAMBDA n : n.id \in keep)

\* edges2 without the test of the endpoints.
edges2_unfiltered(edge_list, keep) == edge_list

\* edges2 = [e for e in edges if e["source"] in keep and e["target"] in keep]
edges2(edge_list, keep) ==
    SelectSeq(edge_list, LAMBDA e : e.source \in keep /\ e.target \in keep)

\* The objects _prune_network is handed: the network dict, which refers to its
\* node list, its edge list and its meta dict.  A heap maps references to objects.
HeapOf(network) ==
    [network |-> [nodes |-> "nodes", edges |-> "edges", meta |-> "meta"],
     nodes   |-> network.nodes,
     edges   |-> network.edges,
     meta    |-> network.meta]

\* The network that a reference to a network dict denotes in heap h.
Deref(h, ref) ==
    [nodes |-> h[h[ref].nodes], edges |-> h[h[ref].edges], meta |-> h[h[ref].meta]]

\* meta = network.get("meta", {}) without dict(): the same object under a new name.
dict_alias(h, ref, new) == [heap |-> h, ref |-> ref]

\* dict(x): a new object with the entries of x.
dict(h, ref, new) == [heap |-> (new :> h[ref]) @@ h, ref |-> new]

\* _prune_network on the heap: the heap after the call and the reference returned.
PruneCall(network, seeds, max_nodes) ==
    LET h0 == HeapOf(network) IN
    IF max_nodes <= 0 THEN [heap |-> h0, ret |-> "network"]
    ELSE IF Len(h0[h0.network.nodes]) <= max_nodes THEN [heap |-> h0, ret |-> "network"]
    ELSE LET keep == KeepSet(network, seeds, max_nodes)
             n2 == nodes2(h0[h0.network.nodes], keep)
             e2 == edges2(h0[h0.network.edges], keep)
             m  == dict(h0, h0.network.meta, "meta2")
             \* meta["pruned"] = True; meta["pruned_max_nodes"] = ...; meta["counts"] = ...
             h1 == [m.heap EXCEPT ![m.ref] =
                       [pruned |-> TRUE,
                        pruned_max_nodes |-> max_nodes,
                        counts |-> [nodes |-> Len(n2), edges |-> Len(e2)]] @@ @]
             h2 == [result |-> [nodes |-> "nodes2", edges |-> "edges2", meta |-> m.ref],
                    nodes2 |-> n2,
                    edges2 |-> e2] @@ h1
         IN  [heap |-> h2, ret |-> "result"]

\* _prune_network without meta["counts"] = {...}: the copy keeps the old counts.
_prune_network_stale_counts(network, seeds, max_nodes) ==
    LET c == PruneCall(network, seeds, max_nodes)
        r == Deref(c.heap, c.ret)
    IN  [r EXCEPT !.meta.counts = network.meta.counts]

\* The value _prune_network returns.
_prune_network(network, seeds, max_nodes) ==
    LET c == PruneCall(network, seeds, max_nodes) IN Deref(c.heap, c.ret)

-----------------------------------------------------------------------------
(* SpecPrune: _prune_network applied to one network, seed list and budget. *)

PruneIds == {IdA, IdB, IdC, IdD}

Perms(S) == {f \in [1..Cardinality(S) -> S] : \A i, j \in DOMAIN f : f[i] = f[j] => i = j}

\* The node lists: any insertion order of any non-empty set of identifiers.
NodeOrders == UNION {Perms(S) : S \in (SUBSET PruneIds) \ {{}}}

\* Every node of a fused network came with an edge: the edge sets are the sets of
\* pairs (a self-loop is possible on "A") that touch every node.
PairUniverse(S) ==
    {q \in SUBSET S : Cardinality(q) = 2} \cup (IF IdA \in S THEN {{IdA}} ELSE {})

CoveringPairSets(S) ==
    {P \in SUBSET PairUniverse(S) : \A n \in S : \E q \in P : n \in q}

StrMin(q) == CHOOSE x \in q : \A y \in q : ~StrLess(y, x)
StrMax(q) == CHOOSE x \in q : \A y \in q : ~StrLess(x, y)

RECURSIVE EdgeListOf(_, _)
\* One "ppi"/STRING edge per pair and, when par, a parallel "rbp_target"/ENCORI
\* edge for the pairs that contain "B".
EdgeListOf(P, par) ==
    IF P = {} THEN <<>>
    ELSE LET q == CHOOSE x \in P : TRUE
             e1 == Edge(StrMin(q), StrMax(q), "ppi", "STRING", None, 1)
             e2 == Edge(StrMin(q), StrMax(q), "rbp_target", "ENCORI", None, 1)
         IN  (IF par /\ IdB \in q /\ Cardinality(q) = 2 THEN <<e1, e2>> ELSE <<e1>>)
                 \o EdgeListOf(P \ {q}, par)

NetworkOf(node_list, edge_list, seeds, sources, max_nodes) ==
    [nodes |-> node_list,
     edges |-> edge_list,
     meta  |-> [seeds |-> seeds, sources |-> sources, max_nodes |-> max_nodes,
                counts |-> [nodes |-> Len(node_list), edges |-> Len(edge_list)]]]

\* Seed lists: one or two seeds, possibly repeated, possibly no node of the graph.
SeedIds == {IdA, IdB, IdAB}
SeedLists == {<<x>> : x \in SeedIds} \cup {<<x, y>> : x \in SeedIds, y \in SeedIds}

PruneInit ==
    /\ pout = <<>>
    /\ \E order \in NodeOrders :
       \E P \in CoveringPairSets(Range(order)) :
       \E par \in BOOLEAN, sd \in SeedLists, b \in 0..MaxBudget :
          pin = [network |-> NetworkOf([i \in DOMAIN order |->
                                           Node(order[i], order[i], "protein", <<"STRING">>)],
                                       EdgeListOf(P, par), sd, <<"string_ppi">>, b),
                 seeds |-> sd,
                 max_nodes |-> b]

Prune ==
    /\ pin # <<>>
    /\ pout = <<>>
    /\ LET c == PruneCall(pin.network, pin.seeds, pin.max_nodes)
       IN  pout' = [net    |-> Deref(c.heap, c.ret),
                    arg    |-> Deref(c.heap, "network"),
                    is_arg |-> c.ret = "network"]
    /\ UNCHANGED <<pin, fuseVars, buildVars, cacheVars, keyVars, commVars, orderVars, regVars>>

InitPrune == PruneInit /\ FuseIdle /\ BuildIdle /\ CacheIdle /\ KeyIdle /\ CommIdle /\ OrderIdle /\ RegIdle
SpecPrune == InitPrune /\ [][Prune]_vars

-----------------------------------------------------------------------------
(* SpecBuild: one request through network_params and build_network.  Each  *)
(* adapter call is a step: the adapter raises, or returns a list of items  *)
(* that build_network folds before it goes on.                             *)

\* Python's str.strip() for blanks.
RECURSIVE LStrip(_)
LStrip(t) == IF t # <<>> /\ Head(t) = 32 THEN LStrip(Tail(t)) ELSE t
RECURSIVE RStrip(_)
RStrip(t) == IF t # <<>> /\ t[Len(t)] = 32 THEN RStrip(SubSeq(t, 1, Len(t) - 1)) ELSE t
Strip(t) == RStrip(LStrip(t))

\* x or y, for strings.
OrElse(x, y) == IF x # <<>> THEN x ELSE y

RawSourceLists ==
    {<<"">>, <<"bogus">>, <<"bogus", " ">>, <<"string">>, <<"PPI", "encori_rbp">>,
     <<" Encori_RNA ", "string_ppi">>,
     <<"encori_rbp_by_target", "bogus", "encori_rna_rna">>,
     <<"encori_rna_rna", "encori_rbp", "string">>}

BuildSeedLists == {<<IdA>>, <<IdA, IdB>>}

\* What the adapters may return.  STRING items carry the two names (possibly
\* empty) and a score; ENCORI items the raw columns.
StringResponses ==
    {<<>>,
     <<[a |-> IdA, b |-> IdB, score |-> Some(9)]>>,
     <<[a |-> IdB, b |-> IdA, score |-> None],
       [a |-> <<>>, b |-> IdA, score |-> Some(4)],
       [a |-> IdB, b |-> IdC, score |-> Some(4)]>>}

RbpResponses ==
    {<<>>,
     <<[RBP |-> IdC, geneName |-> <<>>], [RBP |-> <<32, 67>>, geneName |-> IdA]>>}

RnaResponses ==
    {<<>>,
     <<[geneName |-> IdA, pairGeneName |-> IdD], [geneName |-> IdB, pairGeneName |-> <<32>>]>>}

\* The records build_network makes of the items of one response (items with an
\* empty name are skipped).
StringRecords(items, depth) ==
    [i \in DOMAIN SelectSeq(items, LAMBDA it : it.a # <<>> /\ it.b # <<>>) |->
        LET it == SelectSeq(items, LAMBDA x : x.a # <<>> /\ x.b # <<>>)[i]
        IN  [source |-> it.a, target |-> it.b, kind |-> "ppi", source_db |-> "STRING",
             score |-> it.score, meta |-> [depth |-> depth]]]

RbpRecords(items, seed) ==
    LET ok(it) == Strip(it.RBP) # <<>> /\ Strip(OrElse(it.geneName, seed)) # <<>>
        kept == SelectSeq(items, ok)
    IN  [i \in DOMAIN kept |->
            [source |-> Strip(kept[i].RBP), target |-> Strip(OrElse(kept[i].geneName, seed)),
             kind |-> "rbp_target", source_db |-> "ENCORI", score |-> None,
             meta |-> kept[i]]]

RnaRecords(items) ==
    LET ok(it) == Strip(it.geneName) # <<>> /\ Strip(it.pairGeneName) # <<>>
        kept == SelectSeq(items, ok)
    IN  [i \in DOMAIN kept |->
            [source |-> Strip(kept[i].geneName), target |-> Strip(kept[i].pairGeneName),
             kind |-> "rna_rna", source_db |-> "ENCORI", score |-> None,
             meta |-> kept[i]]]

RECURSIVE FoldAllNodes(_, _)
FoldAllNodes(ns, recs) ==
    IF recs = <<>> THEN ns ELSE FoldAllNodes(FoldNodes(ns, Head(recs)), Tail(recs))

RECURSIVE FoldAllEdges(_, _)
FoldAllEdges(es, recs) ==
    IF recs = <<>> THEN es ELSE FoldAllEdges(FoldEdges(es, Head(recs)), Tail(recs))

Sources == _normalize_sources(req.csv)

Stage(st, i) == [stage |-> st, i |-> i]

\* The source blocks run in this order whatever the order of `sources`.
AfterRna == Stage("finish", 1)
AfterRbp == IF InSeq("encori_rna_rna", Sources) THEN Stage("rna", 1) ELSE AfterRna
AfterString == IF InSeq("encori_rbp_by_target", Sources) THEN Stage("rbp", 1) ELSE AfterRbp
FirstStage == IF InSeq("string_ppi", Sources) THEN Stage("string_map1", 1) ELSE AfterString

BuildInit ==
    /\ pc = Stage("start", 1)
    /\ req \in [csv : RawSourceLists, seeds : BuildSeedLists,
                string_depth : {1, 2}, max_nodes : 0..MaxBudget]
    /\ calls = <<>>
    /\ outcome = <<>>

\* build_network without the check of `sources`.
SourcesRejected_never(srcs) == FALSE

\* `if not sources: raise HTTPException(400)`
SourcesRejected(srcs) == srcs = <<>>

\* network_params normalises the sources; build_network checks them first.
StartBuild ==
    /\ pc.stage = "start"
    /\ IF SourcesRejected(Sources)
       THEN /\ pc' = Stage("raised", 1)
            /\ outcome' = [status |-> 400]
       ELSE /\ pc' = FirstStage
            /\ outcome' = outcome
    /\ UNCHANGED <<req, calls, fuseVars, pruneVars, cacheVars, keyVars, commVars, orderVars, regVars>>

Called(name, arg, ok) == [name |-> name, arg |-> arg, ok |-> ok]

\* An except clause that gives up on the sources and returns what was folded.
OnAdapterError_swallow ==
    /\ pc' = Stage("finish", 1)
    /\ outcome' = outcome

\* `except Exception as e: raise HTTPException(status_code=502, ...)`
OnAdapterError ==
    /\ pc' = Stage("raised", 1)
    /\ outcome' = [status |-> 502]

AdapterRaises(name, arg) ==
    /\ calls' = Append(calls, Called(name, arg, FALSE))
    /\ OnAdapterError
    /\ UNCHANGED <<req, fuseVars, pruneVars, cacheVars, keyVars, commVars, orderVars, regVars>>

\* string_map_identifiers(seeds): the mapped ids, or the seeds if none, go to pass 1.
StringMap1 ==
    /\ pc.stage = "string_map1"
    /\ \/ AdapterRaises("string_map_identifiers", 1)
       \/ /\ calls' = Append(calls, Called("string_map_identifiers", 1, TRUE))
          /\ pc' = Stage("string_partners1", 1)
          /\ UNCHANGED <<req, outcome, fuseVars, pruneVars, cacheVars, keyVars, commVars, orderVars, regVars>>

\* After pass 1: the second hop if string_depth >= 2.
AfterPass1 == IF req.string_depth >= 2 THEN Stage("string_map2", 1) ELSE AfterString

\* string_partners_chunked(string_ids_1): one chunk (at most 60 ids), then the fold.
StringPartners1 ==
    /\ pc.stage = "string_partners1"
    /\ \/ AdapterRaises("string_interaction_partners", 1)
       \/ \E items \in StringResponses :
             /\ calls' = Append(calls, Called("string_interaction_partners", 1, TRUE))
             /\ nodes' = FoldAllNodes(nodes, StringRecords(items, 1))
             /\ edges' = FoldAllEdges(edges, StringRecords(items, 1))
             /\ pc' = AfterPass1
             /\ UNCHANGED <<req, outcome, log, pruneVars, cacheVars, keyVars, commVars, orderVars, regVars>>

\* string_map_identifiers(string_names): no id mapped (the partners query is then
\* skipped), or ids that string_partners_chunked sends in 1..MaxChunks chunks.
StringMap2 ==
    /\ pc.stage = "string_map2"
    /\ \/ AdapterRaises("string_map_identifiers", 2)
       \/ /\ calls' = Append(calls, Called("string_map_identifiers", 2, TRUE))
          /\ \/ pc' = AfterString
             \/ \E n \in 1..MaxChunks :
                   pc' = [stage |-> "string_partners2", i |-> 1, n |-> n, out |-> <<>>]
          /\ UNCHANGED <<req, outcome, fuseVars, pruneVars, cacheVars, keyVars, commVars, orderVars, regVars>>

\* One chunk of pass 2: the items are collected, and folded after the last chunk.
StringPartners2 ==
    /\ pc.stage = "string_partners2"
    /\ \/ AdapterRaises("string_interaction_partners", 2)
       \/ \E items \in StringResponses :
             /\ calls' = Append(calls, Called("string_interaction_partners", 2, TRUE))
             /\ IF pc.i < pc.n
                THEN /\ pc' = [pc EXCEPT !.i = pc.i + 1, !.out = pc.out \o items]
                     /\ UNCHANGED <<nodes, edges>>
                ELSE /\ nodes' = FoldAllNodes(nodes, StringRecords(pc.out \o items, 2))
                     /\ edges' = FoldAllEdges(edges, StringRecords(pc.out \o items, 2))
                     /\ pc' = AfterString
             /\ UNCHANGED <<req, outcome, log, pruneVars, cacheVars, keyVars, commVars, orderVars, regVars>>

\* encori_rbp_by_target(seed), seed by seed.
EncoriRbp ==
    /\ pc.stage = "rbp"
    /\ \/ AdapterRaises("encori_rbp_by_target", req.seeds[pc.i])
       \/ \E items \in RbpResponses :
             /\ calls' = Append(calls, Called("encori_rbp_by_target", req.seeds[pc.i], TRUE))
             /\ nodes' = FoldAllNodes(nodes, RbpRecords(items, req.seeds[pc.i]))
             /\ edges' = FoldAllEdges(edges, RbpRecords(items, req.seeds[pc.i]))
             /\ pc' = IF pc.i < Len(req.seeds) THEN Stage("rbp", pc.i + 1) ELSE AfterRbp
             /\ UNCHANGED <<req, outcome, log, pruneVars, cacheVars, keyVars, commVars, orderVars, regVars>>

\* encori_rna_rna(seed), seed by seed.
EncoriRna ==
    /\ pc.stage = "rna"
    /\ \/ AdapterRaises("encori_rna_rna", req.seeds[pc.i])
       \/ \E items \in RnaResponses :
             /\ calls' = Append(calls, Called("encori_rna_rna", req.seeds[pc.i], TRUE))
             /\ nodes' = FoldAllNodes(nodes, RnaRecords(items))
             /\ edges' = FoldAllEdges(edges, RnaRecords(items))
             /\ pc' = IF pc.i < Len(req.seeds) THEN Stage("rna", pc.i + 1) ELSE AfterRna
             /\ UNCHANGED <<req, outcome, log, pruneVars, cacheVars, keyVars, commVars, orderVars, regVars>>

\* The network of the fused maps, pruned when max_nodes is set and exceeded.
Finish ==
    /\ pc.stage = "finish"
    /\ LET edge_list == [i \in DOMAIN edges |-> edges[i].e]
           net == NetworkOf(nodes, edge_list, req.seeds, Sources, req.max_nodes)
       IN  outcome' = [status |-> 200,
                       net |-> IF req.max_nodes # 0 /\ Len(nodes) > req.max_nodes
                               THEN _prune_network(net, req.seeds, req.max_nodes)
                               ELSE net]
    /\ pc' = Stage("done", 1)
    /\ UNCHANGED <<req, calls, fuseVars, pruneVars, cacheVars, keyVars, commVars, orderVars, regVars>>

BuildNext ==
    \/ StartBuild
    \/ StringMap1 \/ StringPartners1 \/ StringMap2 \/ StringPartners2
    \/ EncoriRbp \/ EncoriRna
    \/ Finish

InitBuild == BuildInit /\ FuseInit /\ PruneIdle /\ CacheIdle /\ KeyIdle /\ CommIdle /\ OrderIdle /\ RegIdle
SpecBuild == InitBuild /\ [][BuildNext]_vars

-----------------------------------------------------------------------------
(* _stable_json and _cache_key.  A dict is a sequence of entries [k, v] in  *)
(* insertion order with distinct keys; keys and methods are sequences of   *)
(* code points.                                                            *)

MGet      == <<71, 69, 84>>         \* "GET"
MGetLower == <<103, 101, 116>>      \* "get"
MPost     == <<80, 79, 83, 84>>     \* "POST"
KeyA == <<97>>                      \* "a"
KeyB == <<98>>                      \* "b"

Entry(k, v) == [k |-> k, v |-> v]

\* x or {}: None and the empty dict both give the empty dict.
OrEmptyDict(x) == IF x = None THEN <<>> ELSE x[1]

\* json.dumps without sort_keys: the entries in insertion order.
_stable_json_unsorted(obj) == [i \in DOMAIN obj |-> <<obj[i].k, obj[i].v>>]

\* json.dumps(obj, sort_keys=True, separators=(",", ":")): the entries in ascending
\* order of their keys.
_stable_json(obj) ==
    LET pos(i) == 1 + Cardinality({j \in DOMAIN obj : StrLess(obj[j].k, obj[i].k)})
    IN  [p \in DOMAIN obj |->
            LET i == CHOOSE j \in DOMAIN obj : pos(j) = p IN <<obj[i].k, obj[i].v>>]

\* hashlib.sha256(text).hexdigest(): one digest per text.
sha256(text) == <<"sha256", text>>

\* payload = {"m": method.upper(), "u": url, "p": params or {}, "d": data or {}};
\* the dicts inside the payload are serialised by the same json.dumps.
_cache_key(method, url, params, data) ==
    sha256(_stable_json(<<Entry(<<109>>, Upper(method)),
                          Entry(<<117>>, url),
                          Entry(<<112>>, _stable_json(OrEmptyDict(params))),
                          Entry(<<100>>, _stable_json(OrEmptyDict(data)))>>))

-----------------------------------------------------------------------------
(* SpecKey: _cache_key applied to two requests.                            *)

Url(netloc, path) == [netloc |-> netloc, path |-> path]

KeyMethods == {MGet, MGetLower, MPost}
KeyUrls    == {Url("string-db.org", "/api/json/network"), Url("rnasysu.com", "/encori/api")}
\* Dicts over the keys "a" and "b": both insertion orders, other values, fewer keys.
KeyDicts ==
    {None,
     Some(<<>>),
     Some(<<Entry(KeyA, 1)>>),
     Some(<<Entry(KeyA, 1), Entry(KeyB, 2)>>),
     Some(<<Entry(KeyB, 2), Entry(KeyA, 1)>>),
     Some(<<Entry(KeyA, 2), Entry(KeyB, 1)>>)}
KeyBodies == {None, Some(<<Entry(KeyA, 1), Entry(KeyB, 2)>>),
              Some(<<Entry(KeyB, 2), Entry(KeyA, 1)>>)}

KeyRequests == [method : KeyMethods, url : KeyUrls, params : KeyDicts, data : KeyBodies]

KeyInit ==
    /\ kin \in KeyRequests \X KeyRequests
    /\ kout = <<>>

Fingerprint ==
    /\ kin # <<>>
    /\ kout = <<>>
    /\ kout' = [i \in DOMAIN kin |->
                    _cache_key(kin[i].method, kin[i].url, kin[i].params, kin[i].data)]
    /\ UNCHANGED <<kin, fuseVars, buildVars, pruneVars, cacheVars, commVars, orderVars, regVars>>

InitKey == KeyInit /\ FuseIdle /\ BuildIdle /\ PruneIdle /\ CacheIdle /\ CommIdle /\ OrderIdle /\ RegIdle
SpecKey == InitKey /\ [][Fingerprint]_vars

-----------------------------------------------------------------------------
(* cached_request and _sleep_if_needed, statement by statement, for one    *)
(* caller (SpecCache) and for two worker threads (SpecThreads).  Time      *)
(* passes while a thread sleeps, waits for a response or is between calls; *)
(* the other statements take no time.                                      *)

MaxCalls == 3       \* calls of cached_request the single caller makes
MaxThreadCalls == 1 \* calls each of the concurrent worker threads makes
MaxTicks == 3       \* how far the clock runs
MaxDelay == 2       \* the positive value of POLITE_DELAY_SECONDS
MaxTtl   == 2       \* ttl_seconds of the calls
Epoch    == 10      \* time.time() when the module is loaded

Workers == {1, 2}

\* Two requests to one host, with different fingerprints, and one to another host.
CacheRequests ==
    {[method |-> MGet, url |-> Url("string-db.org", "/api/json/network"),
      params |-> Some(<<Entry(KeyA, 1), Entry(KeyB, 2)>>), data |-> None],
     [method |-> MGet, url |-> Url("string-db.org", "/api/json/network"),
      params |-> Some(<<Entry(KeyA, 1)>>), data |-> None],
     [method |-> MGet, url |-> Url("rnasysu.com", "/encori/api"),
      params |-> None, data |-> None]}

\* A thread outside cached_request that will call it `left` more times.
IdleThread(left) ==
    [pc |-> "idle", left |-> left, call |-> 0, req |-> None, ttl |-> 0, key |-> None,
     wake |-> 0]

\* cached_request returns or raises in thread t.
Leave(t) == [threads EXCEPT ![t] = IdleThread(threads[t].left)]

\* The thread at statement `at`, its locals kept.
Goto(t, at) == [threads EXCEPT ![t].pc = at]

\* urlparse(url).netloc
HostOf(t) == threads[t].req.url.netloc

\* One entry of the history, made by thread t at the present time.
Event(ev, t, val) ==
    [ev |-> ev, t |-> t, call |-> threads[t].call, key |-> threads[t].key,
     host |-> HostOf(t), at |-> clock, val |-> val]

CacheInit(workers, each) ==
    /\ cache = <<>>
    /\ clock = Epoch
    /\ _HOST_LAST_CALL = <<>>
    /\ POLITE_DELAY_SECONDS \in {0, MaxDelay}
    /\ threads = [t \in workers |-> IdleThread(each)]
    /\ trace = <<>>

\* cached_request is called: key = _cache_key(method, url, params=params, data=data)
Call(t) ==
    /\ threads[t].pc = "idle"
    /\ threads[t].left > 0
    /\ \E r \in CacheRequests :
          LET key == _cache_key(r.method, r.url, r.params, r.data)
          IN  /\ threads' = [threads EXCEPT ![t] =
                     [pc |-> "check", left |-> threads[t].left - 1, call |-> Len(trace) + 1,
                      req |-> r, ttl |-> MaxTtl, key |-> key, wake |-> 0]]
              /\ trace' = Append(trace, [ev |-> "call", t |-> t, call |-> Len(trace) + 1,
                                          key |-> key, host |-> r.url.netloc, at |-> clock,
                                          val |-> MaxTtl])
    /\ UNCHANGED <<cache, clock, _HOST_LAST_CALL, POLITE_DELAY_SECONDS, notCacheVars>>

\* The test of line 86 with <= in place of <.
Fresh_inclusive(key, ttl_seconds) ==
    /\ key \in DOMAIN cache
    /\ (clock - cache[key].mtime) <= ttl_seconds

\* The test of line 86 always false.
Fresh_never(key, ttl_seconds) == FALSE

\* path.exists() and (time.time() - path.stat().st_mtime) < ttl_seconds
Fresh(key, ttl_seconds) ==
    /\ key \in DOMAIN cache
    /\ (clock - cache[key].mtime) < ttl_seconds

\* if <fresh>: return path.read_bytes()
CheckCache(t) ==
    /\ threads[t].pc = "check"
    /\ IF Fresh(threads[t].key, threads[t].ttl)
       THEN /\ threads' = Leave(t)
            /\ trace' = Append(trace, Event("return", t, cache[threads[t].key].bytes))
       ELSE /\ threads' = Goto(t, "throttle")
            /\ trace' = Append(trace, Event("miss", t, 0))
    /\ UNCHANGED <<cache, clock, _HOST_LAST_CALL, POLITE_DELAY_SECONDS, notCacheVars>>

\* The wait always taken as zero.
Wait_none(last, now) == 0

\* wait = POLITE_DELAY_SECONDS - (now - last)
Wait(last, now) == POLITE_DELAY_SECONDS - (now - last)

\* _sleep_if_needed up to the sleep: lines 56 to 63.
SleepIfNeeded(t) ==
    /\ threads[t].pc = "throttle"
    /\ IF POLITE_DELAY_SECONDS <= 0
       THEN /\ threads' = Goto(t, "request")
            /\ trace' = trace
       ELSE LET host == HostOf(t)
                last == IF host \in DOMAIN _HOST_LAST_CALL THEN _HOST_LAST_CALL[host] ELSE 0
                now  == clock
                wait == Wait(last, now)
            IN  IF wait > 0
                THEN /\ threads' = [threads EXCEPT ![t].pc = "sleep", ![t].wake = clock + wait]
                     /\ trace' = Append(trace, Event("sleep", t, wait))
                ELSE /\ threads' = Goto(t, "record")
                     /\ trace' = trace
    /\ UNCHANGED <<cache, clock, _HOST_LAST_CALL, POLITE_DELAY_SECONDS, notCacheVars>>

\* time.sleep(wait) returns, no sooner than asked.
WakeUp(t) ==
    /\ threads[t].pc = "sleep"
    /\ clock >= threads[t].wake
    /\ threads' = Goto(t, "record")
    /\ UNCHANGED <<cache, clock, _HOST_LAST_CALL, POLITE_DELAY_SECONDS, trace, notCacheVars>>

\* _HOST_LAST_CALL[host] = time.time()
RecordCall(t) ==
    /\ threads[t].pc = "record"
    /\ _HOST_LAST_CALL' = (HostOf(t) :> clock) @@ _HOST_LAST_CALL
    /\ threads' = Goto(t, "request")
    /\ trace' = Append(trace, Event("record", t, clock))
    /\ UNCHANGED <<cache, clock, POLITE_DELAY_SECONDS, notCacheVars>>

\* requests.request(...) is sent.
SendRequest(t) ==
    /\ threads[t].pc = "request"
    /\ threads' = Goto(t, "response")
    /\ trace' = Append(trace, Event("fetch", t, 0))
    /\ UNCHANGED <<cache, clock, _HOST_LAST_CALL, POLITE_DELAY_SECONDS, notCacheVars>>

\* An except clause around the request that sends it again.
FetchFails_retry(t) ==
    /\ threads' = Goto(t, "request")
    /\ trace' = Append(trace, Event("raise", t, 0))
    /\ cache' = cache

\* requests.request raises, or r.raise_for_status() does: cached_request has no
\* except clause, the exception leaves it.
FetchFails(t) ==
    /\ threads' = Leave(t)
    /\ trace' = Append(trace, Event("raise", t, 0))
    /\ cache' = cache

\* path.write_bytes(r.content); return r.content.  Every response has its own content.
FetchSucceeds(t) ==
    LET content == Len(trace) + 1
    IN  /\ cache' = (threads[t].key :> [bytes |-> content, mtime |-> clock]) @@ cache
        /\ trace' = trace \o <<Event("write", t, content), Event("return", t, content)>>
        /\ threads' = Leave(t)

\* The request ends: lines 90 to 100.
Response(t) ==
    /\ threads[t].pc = "response"
    /\ FetchFails(t) \/ FetchSucceeds(t)
    /\ UNCHANGED <<clock, _HOST_LAST_CALL, POLITE_DELAY_SECONDS, notCacheVars>>

\* Time passes while no thread is at a statement that takes no time.
Tick ==
    /\ clock < Epoch + MaxTicks
    /\ \A t \in DOMAIN threads : threads[t].pc \in {"idle", "sleep", "response"}
    /\ clock' = clock + 1
    /\ UNCHANGED <<cache, _HOST_LAST_CALL, POLITE_DELAY_SECONDS, threads, trace, notCacheVars>>

CacheNext ==
    \/ Tick
    \/ \E t \in DOMAIN threads : Call(t)
    \/ \E t \in DOMAIN threads : CheckCache(t)
    \/ \E t \in DOMAIN threads : SleepIfNeeded(t)
    \/ \E t \in DOMAIN threads : WakeUp(t)
    \/ \E t \in DOMAIN threads : RecordCall(t)
    \/ \E t \in DOMAIN threads : SendRequest(t)
    \/ \E t \in DOMAIN threads : Response(t)

InitCache == CacheInit({1}, MaxCalls) /\ FuseIdle /\ BuildIdle /\ PruneIdle /\ KeyIdle /\ CommIdle /\ OrderIdle /\ RegIdle
SpecCache == InitCache /\ [][CacheNext]_vars

InitThreads == CacheInit(Workers, MaxThreadCalls) /\ FuseIdle /\ BuildIdle /\ PruneIdle /\ KeyIdle /\ CommIdle /\ OrderIdle /\ RegIdle
SpecThreads == InitThreads /\ [][CacheNext]_vars

-----------------------------------------------------------------------------
(* communities: what it makes of the partition that the community          *)
(* algorithm returns (any partition of the graph's nodes, in any order).   *)

MaxMinSize == 3     \* largest min_size tried

CommIds == {IdA, IdB, IdC, IdD, IdAB}

RECURSIVE OrderedPartitions(_)
\* list(greedy_modularity_communities(g)) or list(asyn_lpa_communities(g, ...)):
\* disjoint non-empty sets that cover the nodes, in the order they were found.
OrderedPartitions(S) ==
    IF S = {} THEN {<<>>}
    ELSE UNION {{<<B>> \o rest : rest \in OrderedPartitions(S \ B)} :
                   B \in (SUBSET S) \ {{}}}

\* sorted(list(c)): the members in ascending order.
SortedList(c) ==
    [p \in 1..Cardinality(c) |->
        CHOOSE x \in c : Cardinality({y \in c : StrLess(y, x)}) = p - 1]

\* [sorted(list(c)) for c in comms if len(c) >= min_size]
Qualifying(comms, min_size) ==
    LET kept == SelectSeq(comms, LAMBDA c : Cardinality(c) >= min_size)
    IN  [i \in DOMAIN kept |-> SortedList(kept[i])]

\* comm_list.sort(key=len): smallest first.
SortBySize_ascending(comm_list) ==
    LET pos(i) == Cardinality({j \in DOMAIN comm_list : Len(comm_list[j]) < Len(comm_list[i])})
                  + Cardinality({j \in DOMAIN comm_list :
                                     j < i /\ Len(comm_list[j]) = Len(comm_list[i])})
                  + 1
    IN  [p \in DOMAIN comm_list |-> comm_list[CHOOSE i \in DOMAIN comm_list : pos(i) = p]]

\* comm_list.sort(key=len, reverse=True): a stable sort, lists of equal length stay
\* in the order they had.
SortBySize(comm_list) ==
    LET pos(i) == Cardinality({j \in DOMAIN comm_list : Len(comm_list[j]) > Len(comm_list[i])})
                  + Cardinality({j \in DOMAIN comm_list :
                                     j < i /\ Len(comm_list[j]) = Len(comm_list[i])})
                  + 1
    IN  [p \in DOMAIN comm_list |-> comm_list[CHOOSE i \in DOMAIN comm_list : pos(i) = p]]

RECURSIVE AssignAll(_, _, _)
\* for n in c: node2c[n] = i
AssignAll(node2c, c, i) ==
    IF c = <<>> THEN node2c ELSE AssignAll((Head(c) :> i) @@ node2c, Tail(c), i)

RECURSIVE Node2c(_, _, _)
\* for i, c in enumerate(comm_list): ...   (comm_list from its position p on)
Node2c(node2c, comm_list, p) ==
    IF p > Len(comm_list) THEN node2c
    ELSE Node2c(AssignAll(node2c, comm_list[p], p - 1), comm_list, p + 1)

communities(ids, comms, min_size) ==
    IF ids = {} THEN [comm_list |-> <<>>, node2c |-> <<>>]
    ELSE LET comm_list == SortBySize(Qualifying(comms, min_size))
         IN  [comm_list |-> comm_list, node2c |-> Node2c(<<>>, comm_list, 1)]

CommInit ==
    /\ cout = <<>>
    /\ \E S \in SUBSET CommIds :
       \E comms \in OrderedPartitions(S), min_size \in 0..MaxMinSize :
          cin = [ids |-> S, comms |-> comms, min_size |-> min_size]

Communities ==
    /\ cin # <<>>
    /\ cout = <<>>
    /\ cout' = [ret |-> communities(cin.ids, cin.comms, cin.min_size)]
    /\ UNCHANGED <<cin, fuseVars, buildVars, pruneVars, cacheVars, keyVars, orderVars, regVars>>

InitComm == CommInit /\ FuseIdle /\ BuildIdle /\ PruneIdle /\ CacheIdle /\ KeyIdle /\ OrderIdle /\ RegIdle
SpecComm == InitComm /\ [][Communities]_vars

-----------------------------------------------------------------------------
(* SpecOrder: two runs over the same input in two orders.  Either the same *)
(* interaction records are folded in two orders, or build_network is run   *)
(* on the same adapter responses with its sources listed in two orders.    *)

MaxOrderRecords == 3    \* records folded in one run of SpecOrder

\* Both orientations of one pair.
OrderPairs == {<<IdA, IdB>>, <<IdB, IdA>>}
\* Two kinds under one source_db: the kinds of the endpoints differ with the record.
OrderTypes == {<<"ppi", "ENCORI">>, <<"rbp_target", "ENCORI">>}

\* The records: the pair under every kind and score, and one that brings a third node.
OrderRecords ==
    {[source |-> p[1], target |-> p[2], kind |-> t[1], source_db |-> t[2], score |-> sc] :
        p \in OrderPairs, t \in OrderTypes, sc \in Scores}
    \cup {[source |-> IdB, target |-> IdC, kind |-> "ppi", source_db |-> "STRING",
           score |-> None]}

\* The records in the order of arrival; the meta of a record is its position.
Numbered(f) == [i \in DOMAIN f |-> [meta |-> i] @@ f[i]]

RecordLists == UNION {[1..n -> OrderRecords] : n \in 1..MaxOrderRecords}

\* The sequence s taken in the order p.
Permute(s, p) == [i \in DOMAIN s |-> s[p[i]]]

RECURSIVE Flatten(_)
Flatten(ss) == IF ss = <<>> THEN <<>> ELSE Head(ss) \o Flatten(Tail(ss))

\* build_network running its blocks in the order `sources` lists them.
BuildRecords_as_listed(sources, seeds, resp) ==
    Flatten([k \in DOMAIN sources |->
        CASE sources[k] = "string_ppi" -> StringRecords(resp.string, 1)
          [] sources[k] = "encori_rbp_by_target" ->
                Flatten([i \in DOMAIN seeds |-> RbpRecords(resp.rbp[i], seeds[i])])
          [] OTHER -> Flatten([i \in DOMAIN seeds |-> RnaRecords(resp.rna[i])])])

\* The records build_network folds, in the order it folds them (string_depth 1):
\* `if "string_ppi" in sources:`, then `if "encori_rbp_by_target" in sources:
\* for seed in seeds:`, then `if "encori_rna_rna" in sources: for seed in seeds:`.
BuildRecords(sources, seeds, resp) ==
    (IF InSeq("string_ppi", sources) THEN StringRecords(resp.string, 1) ELSE <<>>)
    \o (IF InSeq("encori_rbp_by_target", sources)
        THEN Flatten([i \in DOMAIN seeds |-> RbpRecords(resp.rbp[i], seeds[i])])
        ELSE <<>>)
    \o (IF InSeq("encori_rna_rna", sources)
        THEN Flatten([i \in DOMAIN seeds |-> RnaRecords(resp.rna[i])])
        ELSE <<>>)

\* The node and edge maps after the records are folded into empty maps.
Fused(recs) == [nodes |-> FoldAllNodes(<<>>, recs), edges |-> FoldAllEdges(<<>>, recs)]

\* The lists of sources _normalize_sources can return: no source twice.
SourceOrders == UNION {Perms(S) : S \in (SUBSET SUPPORTED_SOURCES) \ {{}}}

OrderInput(mode, recs, sources, seeds, resp) ==
    [mode |-> mode, recs |-> recs, sources |-> sources, seeds |-> seeds, resp |-> resp]

OrderInit ==
    /\ oout = <<>>
    /\ \/ \E f \in RecordLists : oin = OrderInput("records", Numbered(f), <<>>, <<>>, <<>>)
       \/ \E so \in SourceOrders, sd \in BuildSeedLists, st \in StringResponses :
          \E rb \in [DOMAIN sd -> RbpResponses], rn \in [DOMAIN sd -> RnaResponses] :
             oin = OrderInput("sources", <<>>, so, sd, [string |-> st, rbp |-> rb, rna |-> rn])

\* The records folded as they came, and folded in the order p.
FoldPermuted ==
    /\ oin.mode = "records"
    /\ oout = <<>>
    /\ \E p \in Perms(DOMAIN oin.recs) :
          oout' = [perm |-> p, a |-> Fused(oin.recs), b |-> Fused(Permute(oin.recs, p))]
    /\ UNCHANGED <<oin, fuseVars, buildVars, pruneVars, cacheVars, keyVars, commVars, regVars>>

\* build_network with the sources as listed, and with them listed in the order p.
BuildReordered ==
    /\ oin.mode = "sources"
    /\ oout = <<>>
    /\ \E p \in Perms(DOMAIN oin.sources) :
          oout' = [perm |-> p,
                   a |-> Fused(BuildRecords(oin.sources, oin.seeds, oin.resp)),
                   b |-> Fused(BuildRecords(Permute(oin.sources, p), oin.seeds, oin.resp))]
    /\ UNCHANGED <<oin, fuseVars, buildVars, pruneVars, cacheVars, keyVars, commVars, regVars>>

OrderNext == FoldPermuted \/ BuildReordered

InitOrder == OrderInit /\ FuseIdle /\ BuildIdle /\ PruneIdle /\ CacheIdle /\ KeyIdle /\ CommIdle /\ RegIdle
SpecOrder == InitOrder /\ [][OrderNext]_vars

-----------------------------------------------------------------------------
(* The regulon overlap scorer: _reg_edge_weight_v1, _default_min_coverage_v1, *)
(* _regulon_overlap_v1 and the /regulon endpoint.  Scores, weights,        *)
(* confidences and specificities are floats in the code; here they are     *)
(* integers in thousandths (0.9 is 900), and the code's round(x, 6) is a   *)
(* rounding to the thousandth.  Modes and seeds are sequences of code      *)
(* points, so that lower() and strip() are computed.                       *)

MaxRegEdges  == 3    \* edges of the network handed to the scorer
MaxRegSeeds  == 2    \* largest explicit min_coverage tried
MaxTop       == 2    \* largest top tried in a direct call of _regulon_overlap_v1
MaxSeedCount == 4    \* largest n tried for _default_min_coverage_v1

Max(a, b) == IF a >= b THEN a ELSE b

\* str.lower() for ASCII.
Lower(s) == [i \in DOMAIN s |-> IF s[i] \in 65..90 THEN s[i] + 32 ELSE s[i]]

\* a / b rounded to the nearest integer, for a >= 0 and b > 0.
RoundDiv(a, b) == (2 * a + b) \div (2 * b)

\* 1000 * math.log1p(n), for the supports and degrees the model reaches.
Log1pMilli(n) ==
    CASE n = 0 -> 0    [] n = 1 -> 693  [] n = 2 -> 1099 [] n = 3 -> 1386
      [] n = 4 -> 1609 [] n = 5 -> 1792 [] n = 6 -> 1946 [] n = 7 -> 2079
      [] n = 8 -> 2197 [] n = 9 -> 2303 [] OTHER -> 2398

\* ("string" in db) or ("ppi" in db) or ("ppi" in kind), on the lower-cased
\* source_db and kind, for the values build_network writes.
PpiLike(e) == e.source_db = "STRING" \/ e.kind = "ppi"

_reg_edge_weight_v1(e) ==
    LET support == IF e.support = 0 THEN 1 ELSE e.support
    IN  IF PpiLike(e)
        THEN IF e.score = None
             THEN 600       \* float(None) raises: `except Exception: return 0.6`
             ELSE LET sc == IF e.score[1] > 1000 THEN e.score[1] \div 1000 ELSE e.score[1]
                  IN  Max(0, Min(1000, sc))
        ELSE Max(300, Min(1000, 300 + Log1pMilli(support) \div 4))

ModeStrict   == <<115, 116, 114, 105, 99, 116>>
ModeAny      == <<97, 110, 121>>
ModeMajority == <<109, 97, 106, 111, 114, 105, 116, 121>>

\* _default_min_coverage_v1 with n // 2 for the majority.
_default_min_coverage_v1_floor(mode, n) ==
    LET m == Lower(OrElse(mode, ModeMajority))
    IN  IF n <= 1 THEN 1
        ELSE IF m = ModeStrict THEN n
        ELSE IF m = ModeAny THEN 1
        ELSE n \div 2

_default_min_coverage_v1(mode, n) ==
    LET m == Lower(OrElse(mode, ModeMajority))
    IN  IF n <= 1 THEN 1
        ELSE IF m = ModeStrict THEN n
        ELSE IF m = ModeAny THEN 1
        ELSE (n + 1) \div 2

RECURSIVE Dedup(_, _)
\* for s in seeds: if s not in seen: seeds_u.append(s); seen.add(s)
Dedup(s, seen) ==
    IF s = <<>> THEN <<>>
    ELSE IF Head(s) \in seen THEN Dedup(Tail(s), seen)
    ELSE <<Head(s)>> \o Dedup(Tail(s), seen \cup {Head(s)})

\* seeds = [str(s).strip() for s in seeds if str(s).strip()], then the dedup.
CleanSeeds(seeds) ==
    Dedup(SelectSeq([i \in DOMAIN seeds |-> Strip(seeds[i])], LAMBDA x : x # <<>>), {})

\* The edges the walk takes: `if not a or not b: continue`.
Walked(edge_list) == SelectSeq(edge_list, LAMBDA e : e.source # <<>> /\ e.target # <<>>)

RECURSIVE SumSeq(_)
SumSeq(q) == IF q = <<>> THEN 0 ELSE Head(q) + SumSeq(Tail(q))

\* deg[a] += 1; deg[b] += 1 for every edge.
deg(edge_list, n) ==
    LET w == Walked(edge_list)
    IN  SumSeq([i \in DOMAIN w |-> (IF w[i].source = n THEN 1 ELSE 0)
                                   + (IF w[i].target = n THEN 1 ELSE 0)])

\* adj with adj[a].append((b, e)) only: the edges are followed from their source.
adj_directed(edge_list, n) ==
    LET w == Walked(edge_list)
    IN  Flatten([i \in DOMAIN w |->
            IF w[i].source = n THEN <<[nbr |-> w[i].target, e |-> w[i]]>> ELSE <<>>])

\* adj[n]: adj[a].append((b, e)); adj[b].append((a, e)) for every edge, in order.
adj(edge_list, n) ==
    LET w == Walked(edge_list)
    IN  Flatten([i \in DOMAIN w |->
            (IF w[i].source = n THEN <<[nbr |-> w[i].target, e |-> w[i]]>> ELSE <<>>)
            \o (IF w[i].target = n THEN <<[nbr |-> w[i].source, e |-> w[i]]>> ELSE <<>>)])

\* The (seed, neighbour, edge) triples the two loops reach, in order:
\* for seed in seeds: for nbr, e in adj.get(seed, []): unless the neighbour is a
\* seed and exclude_seed_nodes.
Visits(edge_list, seeds, exclude_seed_nodes) ==
    Flatten([k \in DOMAIN seeds |->
        LET a == SelectSeq(adj(edge_list, seeds[k]),
                           LAMBDA x : ~(exclude_seed_nodes /\ InSeq(x.nbr, seeds)))
        IN  [j \in DOMAIN a |-> [seed |-> seeds[k], nbr |-> a[j].nbr, e |-> a[j].e]]])

RECURSIVE seed_best_sum(_, _)
\* seed_best adding up the weights of the edges of one seed.
seed_best_sum(prev, ws) ==
    IF ws = <<>> THEN prev ELSE seed_best_sum(prev + Head(ws), Tail(ws))

RECURSIVE seed_best(_, _)
\* prev = seed_best.get(seed, 0.0); if w > prev: seed_best[seed] = w
seed_best(prev, ws) ==
    IF ws = <<>> THEN prev
    ELSE seed_best(IF Head(ws) > prev THEN Head(ws) ELSE prev, Tail(ws))

\* The entry of `out` for the neighbour n, from the visits v.
Candidate(v, node_kind, edge_list, seeds, n) ==
    LET mine       == SelectSeq(v, LAMBDA x : x.nbr = n)
        hit_seeds  == {mine[i].seed : i \in DOMAIN mine}
        weights(sd) == LET of == SelectSeq(mine, LAMBDA x : x.seed = sd)
                       IN  [i \in DOMAIN of |-> _reg_edge_weight_v1(of[i].e)]
        cov        == Cardinality(hit_seeds)
        conf_sum   == SumSeq([k \in DOMAIN seeds |-> seed_best(0, weights(seeds[k]))])
        db_set     == {mine[i].e.source_db : i \in DOMAIN mine}
        degree     == deg(edge_list, n)
    IN  [node |-> n,
         kind |-> node_kind[n],
         coverage |-> cov,
         confidence_sum |-> conf_sum,
         confidence_mean |-> IF cov > 0 THEN RoundDiv(conf_sum, cov) ELSE 0,
         db_support |-> Cardinality(db_set),
         degree |-> degree,
         specificity_score |-> RoundDiv(conf_sum * 1000, Log1pMilli(degree)),
         hit_seeds |-> SortedList(hit_seeds),
         evidence |-> [i \in DOMAIN mine |->
                          [seed |-> mine[i].seed, source_db |-> mine[i].e.source_db,
                           kind |-> mine[i].e.kind, score |-> mine[i].e.score,
                           support |-> mine[i].e.support]]]

\* The key without the node identifier.
KeyBefore_no_node(x, y) ==
    \/ x.coverage > y.coverage
    \/ /\ x.coverage = y.coverage
       /\ \/ x.specificity_score > y.specificity_score
          \/ /\ x.specificity_score = y.specificity_score
             /\ \/ x.confidence_sum > y.confidence_sum
                \/ /\ x.confidence_sum = y.confidence_sum
                   /\ x.db_support > y.db_support

\* x sorts before y under the key
\* (-coverage, -specificity_score, -confidence_sum, -db_support, node).
KeyBefore(x, y) ==
    \/ x.coverage > y.coverage
    \/ /\ x.coverage = y.coverage
       /\ \/ x.specificity_score > y.specificity_score
          \/ /\ x.specificity_score = y.specificity_score
             /\ \/ x.confidence_sum > y.confidence_sum
                \/ /\ x.confidence_sum = y.confidence_sum
                   /\ \/ x.db_support > y.db_support
                      \/ /\ x.db_support = y.db_support
                         /\ StrLess(x.node, y.node)

\* out.sort(key=...): Python's sort is stable.
SortOut(o) ==
    LET pos(i) == Cardinality({j \in DOMAIN o : KeyBefore(o[j], o[i])})
                  + Cardinality({j \in DOMAIN o :
                        j < i /\ ~KeyBefore(o[j], o[i]) /\ ~KeyBefore(o[i], o[j])})
                  + 1
    IN  [p \in DOMAIN o |-> o[CHOOSE i \in DOMAIN o : pos(i) = p]]

\* s[:k] for k >= 0.
Take(q, k) == SubSeq(q, 1, Min(k, Len(q)))

\* inter[:top]
inter_top(inter, top) == Take(inter, top)

\* _regulon_overlap_v1: the dict it returns and, as `out`, its sorted list of
\* candidates before the cut to `top`.
RegulonCall(netw, raw_seeds, min_coverage, top, exclude_seed_nodes) ==
    LET seeds   == CleanSeeds(raw_seeds)
        n_seeds == Len(seeds)
        v       == Visits(netw.edges, seeds, exclude_seed_nodes)
        items   == Dedup([i \in DOMAIN v |-> v[i].nbr], {})
        \* node_kind.get(nbr, "unknown")
        node_kind == [n \in Range(items) |->
                         IF HasNode(netw.nodes, n) THEN netw.nodes[NodeAt(netw.nodes, n)].kind
                         ELSE "unknown"]
        all     == [i \in DOMAIN items |->
                       Candidate(v, node_kind, netw.edges, seeds, items[i])]
        out     == SortOut(SelectSeq(all, LAMBDA x : ~(x.coverage < min_coverage)))
        inter   == SelectSeq(out, LAMBDA x : x.coverage = n_seeds)
    IN  IF n_seeds = 0
        THEN [ret |-> [seed_count |-> 0, seeds |-> <<>>, top_interactors |-> <<>>,
                       intersection_top |-> <<>>, min_coverage |-> min_coverage],
              out |-> <<>>]
        ELSE [ret |-> [seed_count |-> n_seeds,
                       seeds |-> seeds,
                       min_coverage |-> min_coverage,
                       total_candidates |-> Len(out),
                       intersection_count |-> Len(inter),
                       top_interactors |-> Take(out, top),
                       intersection_top |-> inter_top(inter, top)],
              out |-> out]

_regulon_overlap_v1(netw, seeds, min_coverage, top, exclude_seed_nodes) ==
    RegulonCall(netw, seeds, min_coverage, top, exclude_seed_nodes).ret

\* if min_coverage is None: min_coverage = _default_min_coverage_v1(mode, len(seeds))
MinCoverageOf(mode, min_coverage, seeds) ==
    IF min_coverage = None THEN _default_min_coverage_v1(mode, Len(seeds)) ELSE min_coverage[1]

-----------------------------------------------------------------------------
(* SpecRegulon: one call of the /regulon endpoint on the Network that      *)
(* build_network returned, one direct call of _regulon_overlap_v1, or one  *)
(* call of _default_min_coverage_v1.                                       *)

RegEdge(a, b, kind, db, score, support) ==
    [source |-> a, target |-> b, kind |-> kind, source_db |-> db, score |-> score,
     support |-> support, meta |-> 1]

\* The edges of the networks: seeds A, B and "a", candidates C and D; parallel
\* edges of different kind, a raw score above 1, a null score, a seed-to-seed
\* edge that is "ppi" by its kind only, and two edges of equal weight.
RegEdges ==
    {RegEdge(IdA, IdC, "ppi", "STRING", Some(900), 1),
     RegEdge(IdC, IdB, "ppi", "STRING", Some(100000), 2),
     RegEdge(IdA, IdC, "rbp_target", "ENCORI", None, 2),
     RegEdge(IdB, IdD, "ppi", "STRING", None, 1),
     RegEdge(IdA, IdB, "ppi", "ENCORI", Some(400), 1),
     RegEdge(IdLa, IdC, "rbp_target", "ENCORI", None, 1),
     RegEdge(IdA, IdD, "ppi", "STRING", Some(900), 1)}

\* The edge lists: distinct edges (distinct merge keys) in any order.
RegEdgeLists ==
    UNION {{f \in [1..n -> RegEdges] : \A i, j \in 1..n : f[i] = f[j] => i = j} :
           n \in 0..MaxRegEdges}

\* The nodes of a fused network are the endpoints of its edges.
RegNetwork(edge_list) ==
    LET ids == Dedup(Flatten([i \in DOMAIN edge_list |->
                                 <<edge_list[i].source, edge_list[i].target>>]), {})
    IN  NetworkOf([i \in DOMAIN ids |->
                      Node(ids[i], ids[i], IF ids[i] = IdD THEN "rna" ELSE "protein",
                           <<"STRING">>)],
                  edge_list, <<>>, <<"string_ppi">>, 0)

\* The `seed` parameters of a request: one seed, two, a repeated seed, two that
\* differ in case, two that differ in blanks, and a blank.
RegSeedLists ==
    {<<IdA>>, <<IdA, IdB>>, <<IdB, IdA>>, <<IdA, IdA>>, <<IdA, IdLa>>,
     <<IdA, <<32, 65>>>>, << <<32>> >>}

\* The seed lists of the direct calls.
OverlapSeedLists == {<<>>, <<IdA>>, <<IdA, IdB>>}

\* "strict", "STRICT", "majority", "any", a mode that is none of them, and "".
RegModes == {ModeStrict, <<83, 84, 82, 73, 67, 84>>, ModeMajority, ModeAny, <<120>>, <<>>}

MinTop == 5     \* top: int = Query(50, ge=5, le=500)

RegInput(op, netw, seeds, mode, min_coverage, top, exclude_seed_nodes, n) ==
    [op |-> op, netw |-> netw, seeds |-> seeds, mode |-> mode,
     min_coverage |-> min_coverage, top |-> top,
     exclude_seed_nodes |-> exclude_seed_nodes, n |-> n]

RegInit ==
    /\ rout = <<>>
    /\ \/ \E el \in RegEdgeLists, sd \in RegSeedLists :
          \/ \E m \in RegModes :
                rin = RegInput("regulon", RegNetwork(el), sd, m, None, MinTop, TRUE, 0)
          \/ \E k \in 1..MaxRegSeeds :
                rin = RegInput("regulon", RegNetwork(el), sd, ModeMajority, Some(k),
                               MinTop, TRUE, 0)
       \/ \E el \in RegEdgeLists, sd \in OverlapSeedLists :
          \E k \in 1..MaxRegSeeds, t \in 1..MaxTop, x \in BOOLEAN :
             rin = RegInput("overlap", RegNetwork(el), sd, <<>>, Some(k), t, x, 0)
       \/ \E m \in RegModes, n \in 0..MaxSeedCount :
             rin = RegInput("default", <<>>, <<>>, m, None, 0, TRUE, n)

\* regulon_v1: the Network is build_network's; min_coverage defaults by the mode.
Regulon ==
    /\ rin.op = "regulon"
    /\ rout = <<>>
    /\ rout' = RegulonCall(rin.netw, rin.seeds,
                           MinCoverageOf(rin.mode, rin.min_coverage, rin.seeds),
                           rin.top, TRUE)
    /\ UNCHANGED <<rin, fuseVars, buildVars, pruneVars, cacheVars, keyVars, commVars, orderVars>>

\* _regulon_overlap_v1 called with its five arguments.
Overlap ==
    /\ rin.op = "overlap"
    /\ rout = <<>>
    /\ rout' = RegulonCall(rin.netw, rin.seeds, rin.min_coverage[1], rin.top,
                           rin.exclude_seed_nodes)
    /\ UNCHANGED <<rin, fuseVars, buildVars, pruneVars, cacheVars, keyVars, commVars, orderVars>>

\* _default_min_coverage_v1(mode, n)
DefaultMinCoverage ==
    /\ rin.op = "default"
    /\ rout = <<>>
    /\ rout' = [ret |-> _default_min_coverage_v1(rin.mode, rin.n), out |-> <<>>]
    /\ UNCHANGED <<rin, fuseVars, buildVars, pruneVars, cacheVars, keyVars, commVars, orderVars>>

RegNext == Regulon \/ Overlap \/ DefaultMinCoverage

InitRegulon == RegInit /\ FuseIdle /\ BuildIdle /\ PruneIdle /\ CacheIdle /\ KeyIdle /\ CommIdle /\ OrderIdle
SpecRegulon == InitRegulon /\ [][RegNext]_vars

-----------------------------------------------------------------------------
(* Reading the history.                                                    *)

FoldIdx == {i \in DOMAIN log : log[i].op = "fold"}

\* Edge e and record r join the same unordered pair with the same kind and source_db.
Matches(e, r) ==
    /\ {e.source, e.target} = {r.source, r.target}
    /\ e.kind = r.kind
    /\ e.source_db = r.source_db

\* The folded records that belong with edge e, by position in the history.
MergedInto(e) == {i \in FoldIdx : Matches(e, log[i])}

SetMax(S) == CHOOSE x \in S : \A y \in S : y <= x
SetMin(S) == CHOOSE x \in S : \A y \in S : x <= y

NoDuplicates(s) == \A i \in DOMAIN s, j \in DOMAIN s : s[i] = s[j] => i = j

\* C1: two records are folded into the same edge if and only if they have the same
\* unordered node pair, the same kind and the same source_db: every folded record
\* is held by exactly one edge, the one that matches it, and the support of an edge
\* counts exactly the records that match it.  So (A,B) and (B,A) with equal
\* kind/source give one edge, and records that differ in kind or source_db stay apart.
C1_MergeKey ==
    /\ \A i \in FoldIdx :
          Cardinality({k \in DOMAIN edges : Matches(edges[k].e, log[i])}) = 1
    /\ \A k \in DOMAIN edges :
          edges[k].e.support = Cardinality(MergedInto(edges[k].e))

C1_Witness ==
    /\ Len(log) = 3
    /\ \A i \in DOMAIN log : log[i].op = "fold" /\ log[i].source_db = "ENCORI"
    /\ log[1].source = IdA /\ log[1].target = IdB /\ log[1].kind = "ppi"
    /\ log[2].source = IdB /\ log[2].target = IdA /\ log[2].kind = "ppi"
    /\ log[3].source = IdA /\ log[3].target = IdB /\ log[3].kind = "rbp_target"
    /\ Len(edges) = 2
    /\ edges[1].e.support = 2
    /\ edges[2].e.support = 1

SameRecord(r, q) ==
    /\ r.op = "fold" /\ q.op = "fold"
    /\ r.source = q.source /\ r.target = q.target
    /\ r.kind = q.kind /\ r.source_db = q.source_db /\ r.score = q.score

C2_FromEmpty ==
    (Len(log) >= 1 /\ \A i \in DOMAIN log : SameRecord(log[i], log[1]))
        => /\ nodes = FoldNodes(<<>>, log[1])
           /\ \A i \in DOMAIN nodes : NoDuplicates(nodes[i].sources)
           /\ NoDuplicates(IdsOf(nodes))
           /\ Len(edges) = 1
           /\ edges[1].e.support = Len(log)

\* A step that folds again the record folded just before.
C2_RepeatStep ==
    (Len(log) >= 1 /\ Len(log') = Len(log) + 1 /\ SameRecord(log'[Len(log')], log[Len(log)]))
        => /\ nodes' = nodes
           /\ Len(edges') = Len(edges)
           /\ \A k \in DOMAIN edges :
                 edges'[k].e.support =
                     edges[k].e.support + (IF Matches(edges[k].e, log[Len(log)]) THEN 1 ELSE 0)

\* C2: folding the same record N >= 1 times gives the node map of folding it once
\* (same ids, kinds and source lists, no source listed twice) and one edge whose
\* support is N; in any state, folding a record once more changes no node and adds
\* one to the support of its edge.
C2_FoldIdempotent == []C2_FromEmpty /\ [][C2_RepeatStep]_vars

C2_Witness ==
    /\ Len(log) = 3
    /\ \A i \in DOMAIN log : SameRecord(log[i], log[1])
    /\ log[1].source # log[1].target
    /\ Len(nodes) = 2
    /\ edges[1].e.support = 3

MergedScores(e) == {log[i].score[1] : i \in {j \in MergedInto(e) : log[j].score # None}}

C3_ScoreIsMax ==
    \A k \in DOMAIN edges :
        LET S == MergedScores(edges[k].e)
        IN  edges[k].e.score = IF S = {} THEN None ELSE Some(SetMax(S))

C3_ScoreMonotone ==
    \A k \in DOMAIN edges :
        /\ k \in DOMAIN edges'
        /\ edges'[k].key = edges[k].key
        /\ edges[k].e.score # None =>
              /\ edges'[k].e.score # None
              /\ edges'[k].e.score[1] >= edges[k].e.score[1]

\* C3: after any sequence of merges into one edge key the stored score is the
\* maximum of the non-null scores merged so far (null only if all were null), and
\* along the sequence it never decreases and is never replaced by null.
C3_Score == []C3_ScoreIsMax /\ [][C3_ScoreMonotone]_vars

C3_Witness ==
    /\ Len(log) = 3
    /\ \A i \in DOMAIN log : log[i].op = "fold" /\ Matches(edges[1].e, log[i])
    /\ log[1].score = Some(4) /\ log[2].score = Some(9) /\ log[3].score = Some(4)
    /\ edges[1].e.score = Some(9)
    /\ edges[1].e.support = 3

C4_KindStep ==
    \A i \in DOMAIN nodes :
        /\ i \in DOMAIN nodes'
        /\ nodes'[i].id = nodes[i].id
        /\ nodes[i].kind # "unknown" => nodes'[i].kind = nodes[i].kind
        /\ nodes'[i].kind # nodes[i].kind => nodes[i].kind = "unknown"

\* C4: across _add_node calls for one identifier the node's kind changes only from
\* "unknown" to a concrete kind, hence at most once: a node whose kind is "protein"
\* or "rna" keeps it whatever kind later sightings carry, and no node is dropped.
C4_KindUpgradeOnly == [][C4_KindStep]_vars

C4_Witness ==
    /\ Len(log) = 3
    /\ \A i \in DOMAIN log : log[i].op = "add" /\ log[i].id = IdA
    /\ log[1].kind = "unknown" /\ log[2].kind = "protein" /\ log[3].kind = "rna"
    /\ Len(nodes) = 1
    /\ nodes[1].kind = "protein"

\* C5: node identifiers are unique up to letter case: identifiers that differ only
\* in case are one node of the fused network.
C5_CaseInsensitiveIds ==
    \A i \in DOMAIN nodes, j \in DOMAIN nodes :
        Upper(nodes[i].id) = Upper(nodes[j].id) => i = j

\* C6 as claimed: the meta of an edge is the meta of the last record merged into it.
C6_MetaIsLast ==
    \A k \in DOMAIN edges :
        edges[k].e.meta = log[SetMax(MergedInto(edges[k].e))].meta

\* C6: after several records have been merged into the same edge key, the edge's
\* meta is the meta of the first record merged (as are its source and target).
C6_MetaIsFirst ==
    \A k \in DOMAIN edges :
        LET first == log[SetMin(MergedInto(edges[k].e))]
        IN  /\ edges[k].e.meta = first.meta
            /\ edges[k].e.source = first.source
            /\ edges[k].e.target = first.target

C6_Witness ==
    /\ Len(log) = 3
    /\ Len(edges) = 1
    /\ edges[1].e.support = 3
    /\ edges[1].e.meta = 1
    /\ log[3].meta = 3
    /\ Matches(edges[1].e, log[3])

-----------------------------------------------------------------------------
(* Pruning.                                                                *)

PruneDone  == pout # <<>>
InIds      == Range(IdsOf(pin.network.nodes))
OutIds     == Range(IdsOf(pout.net.nodes))
SeedSet    == Range(pin.seeds)
InDegree(n) == Degree(_build_graph(pin.network), n)

\* The case of C9 and C10: the budget is enabled, the network exceeds it, and the
\* seeds are s nodes of the network with s <= b.
PruneCase ==
    /\ PruneDone
    /\ pin.max_nodes >= 1
    /\ Len(pin.network.nodes) > pin.max_nodes
    /\ SeedSet \subseteq InIds
    /\ Cardinality(SeedSet) <= pin.max_nodes

\* C9: when the unpruned network has more nodes than the budget b and its s seed
\* nodes satisfy s <= b, the pruned node set is the s seeds plus the b - s non-seed
\* nodes of highest degree in the unpruned graph (no dropped non-seed node has a
\* higher degree than a kept one), so it has exactly b nodes.
C9_PruneBudget ==
    PruneCase =>
        /\ Len(pout.net.nodes) = pin.max_nodes
        /\ Cardinality(OutIds) = pin.max_nodes
        /\ SeedSet \subseteq OutIds
        /\ OutIds \subseteq InIds
        /\ \A n \in OutIds \ SeedSet, m \in InIds \ OutIds : InDegree(n) >= InDegree(m)

C9_Witness ==
    /\ PruneCase
    /\ pin.max_nodes = 3
    /\ Len(pin.network.nodes) = 4
    /\ Cardinality(SeedSet) = 2
    /\ \E n \in OutIds \ SeedSet, m \in InIds \ OutIds : InDegree(n) > InDegree(m)

\* C10: when non-seed nodes of equal degree compete for the last slots of the
\* budget, pruning keeps those with the lexicographically smaller identifiers, so
\* the retained set does not depend on the order in which nodes were inserted.
C10_TieBreakById ==
    PruneCase =>
        \A n \in OutIds \ SeedSet, m \in InIds \ OutIds :
            InDegree(n) = InDegree(m) => StrLess(n, m)

\* Pruning applies: the budget is enabled and the network exceeds it.
PruningApplies == pin.max_nodes > 0 /\ Len(pin.network.nodes) > pin.max_nodes

\* C12: _prune_network never mutates its input: after the call the input
\* network's node list, edge list and meta (its counts, and no "pruned" entry) are
\* what they were before, and when pruning applies the value returned is another
\* object than the input and differs from it.
C12_InputUntouched ==
    PruneDone =>
        /\ pout.arg = pin.network
        /\ pout.arg.meta.counts = [nodes |-> Len(pin.network.nodes),
                                   edges |-> Len(pin.network.edges)]
        /\ "pruned" \notin DOMAIN pout.arg.meta
        /\ PruningApplies => /\ ~pout.is_arg
                             /\ pout.net # pout.arg
                             /\ pout.net.meta.pruned

C12_Witness ==
    /\ PruneDone
    /\ PruningApplies
    /\ Len(pout.net.nodes) < Len(pin.network.nodes)
    /\ Len(pout.net.edges) < Len(pin.network.edges)
    /\ pout.net.meta.counts # pin.network.meta.counts
    /\ pout.arg = pin.network

-----------------------------------------------------------------------------
(* build_network.                                                          *)

SourceNames == SUPPORTED_SOURCES \cup {"string", "ppi", "encori_rbp", "encori_rna"}

\* No token of the sources parameter names a source: the list is empty or holds
\* only unrecognized names.
NoValidSource == \A i \in DOMAIN req.csv : StripLower(req.csv[i]) \notin SourceNames

\* C7: with a source list that is empty or holds only unrecognized names,
\* build_network fails with HTTP 400 before any adapter call is made (hence before
\* any cache access or fetch) and before anything is folded; it returns no Network.
C7_NoSourceIs400 ==
    (NoValidSource /\ pc.stage # "start") =>
        /\ pc.stage = "raised"
        /\ outcome = [status |-> 400]
        /\ calls = <<>>
        /\ nodes = <<>> /\ edges = <<>>

C7_Witness ==
    /\ pc.stage = "raised"
    /\ outcome = [status |-> 400]
    /\ req.csv = <<"bogus", " ">>
    /\ calls = <<>>

CallMade(name, arg) == \E i \in DOMAIN calls : calls[i].name = name /\ calls[i].arg = arg

\* C8: if an adapter call raises, build_network raises HTTP 502 and returns no
\* Network, and the failing call is the last call issued; a Network is returned
\* only when every call succeeded and every requested source was queried, for
\* every seed where the source is queried seed by seed.
C8_AllOrNothing ==
    /\ \A i \in DOMAIN calls :
          ~calls[i].ok => /\ i = Len(calls)
                          /\ pc.stage = "raised"
                          /\ outcome = [status |-> 502]
    /\ pc.stage = "done" =>
          /\ outcome.status = 200
          /\ \A i \in DOMAIN calls : calls[i].ok
          /\ InSeq("string_ppi", Sources) =>
                /\ CallMade("string_map_identifiers", 1)
                /\ CallMade("string_interaction_partners", 1)
                /\ req.string_depth >= 2 => CallMade("string_map_identifiers", 2)
          /\ InSeq("encori_rbp_by_target", Sources) =>
                \A j \in DOMAIN req.seeds : CallMade("encori_rbp_by_target", req.seeds[j])
          /\ InSeq("encori_rna_rna", Sources) =>
                \A j \in DOMAIN req.seeds : CallMade("encori_rna_rna", req.seeds[j])

C8_Witness ==
    /\ pc.stage = "raised"
    /\ outcome = [status |-> 502]
    /\ Len(calls) = 4
    /\ calls[4].name = "encori_rbp_by_target" /\ calls[3].name = "encori_rbp_by_target"
    /\ calls[4] = Called("encori_rbp_by_target", IdB, FALSE)
    /\ calls[3] = Called("encori_rbp_by_target", IdA, TRUE)
    /\ nodes # <<>>

NodeIdsOf(net) == Range(IdsOf(net.nodes))

\* C11: in every Network build_network returns, pruned or not, the source and the
\* target of each edge are identifiers of nodes in that Network's node list; after
\* pruning no edge refers to a dropped node.
C11_EdgesWithinNodes ==
    pc.stage = "done" =>
        \A i \in DOMAIN outcome.net.edges :
            /\ outcome.net.edges[i].source \in NodeIdsOf(outcome.net)
            /\ outcome.net.edges[i].target \in NodeIdsOf(outcome.net)

\* A pruned Network that lost a node and with it an edge.
C11_Witness ==
    /\ pc.stage = "done"
    /\ "pruned" \in DOMAIN outcome.net.meta
    /\ Len(outcome.net.nodes) < Len(nodes)
    /\ Len(outcome.net.edges) < Len(edges)
    /\ Len(outcome.net.edges) >= 1

-----------------------------------------------------------------------------
(* The response cache.                                                     *)

\* A dict as a key-value mapping: the set of its entries (None when there is none).
AsMapping(x) == IF x = None THEN None ELSE Some(Range(x[1]))

SameRequest(r, q) ==
    /\ Upper(r.method) = Upper(q.method)
    /\ r.url = q.url
    /\ AsMapping(r.params) = AsMapping(q.params)
    /\ AsMapping(r.data) = AsMapping(q.data)

\* C14: _cache_key is a function of (method, url, params, body) alone: two requests
\* with the same method up to letter case, the same url and params and body that
\* are equal as key-value mappings get the same fingerprint, whatever the order in
\* which the keys were supplied.
C14_FingerprintStable ==
    (kout # <<>> /\ SameRequest(kin[1], kin[2])) => kout[1] = kout[2]

C14_Witness ==
    /\ kout # <<>>
    /\ kin[1].method = MGet /\ kin[2].method = MGetLower
    /\ kin[1].params = Some(<<Entry(KeyA, 1), Entry(KeyB, 2)>>)
    /\ kin[2].params = Some(<<Entry(KeyB, 2), Entry(KeyA, 1)>>)
    /\ kin[1].data # kin[2].data
    /\ kin[1].data # None
    /\ kout[1] = kout[2]

\* The events of the history, by kind.
Events(ev) == {i \in DOMAIN trace : trace[i].ev = ev}

\* The events of the call that event i belongs to.
CallOf(i) == {j \in DOMAIN trace : trace[j].call = trace[i].call}

\* The writes of the entry of event i's fingerprint that came before event i.
WritesBefore(i) == {j \in 1..(i - 1) : trace[j].ev = "write" /\ trace[j].key = trace[i].key}
LastWrite(i) == trace[SetMax(WritesBefore(i))]

\* The age, when event i happened, of the entry of its fingerprint.
AgeAt(i) == trace[i].at - LastWrite(i).at

\* ttl_seconds of the call that event i belongs to.
TtlOf(i) == trace[trace[i].call].val

\* A return straight from the cache: the call found its entry fresh.
Hits == {i \in Events("return") : \A j \in CallOf(i) : trace[j].ev # "miss"}

\* The cache holds, for each fingerprint, what was last written for it, and when.
CacheIsLastWrite ==
    /\ \A i \in Events("write") : trace[i].key \in DOMAIN cache
    /\ \A k \in DOMAIN cache :
          LET W == {j \in Events("write") : trace[j].key = k}
          IN  /\ W # {}
              /\ cache[k] = [bytes |-> trace[SetMax(W)].val, mtime |-> trace[SetMax(W)].at]

C13_HitReturnsStored ==
    /\ \A i \in Events("miss") : WritesBefore(i) # {} => AgeAt(i) >= TtlOf(i)
    /\ \A i \in Hits :
          /\ WritesBefore(i) # {}
          /\ trace[i].val = LastWrite(i).val
          /\ {trace[j].ev : j \in CallOf(i)} = {"call", "return"}
          /\ trace[i].at = trace[trace[i].call].at

\* The step in which a call returns straight from the cache.
C13_HitStep ==
    (Len(trace') = Len(trace) + 1 /\ trace'[Len(trace')].ev = "return")
        => /\ cache' = cache
           /\ _HOST_LAST_CALL' = _HOST_LAST_CALL
           /\ clock' = clock
           /\ trace'[Len(trace')].val = cache[trace'[Len(trace')].key].bytes

\* C13: when cached_request finds an entry for the fingerprint whose age is below
\* ttl, it returns the bytes last stored for that fingerprint, and the call sends
\* no request, does not sleep, does not touch the per-host last-call time and does
\* not write the cache.
C13_FreshHit == []C13_HitReturnsStored /\ [][C13_HitStep]_vars

C13_Witness ==
    /\ Len(trace) \in Hits
    /\ AgeAt(Len(trace)) = MaxTtl - 1
    /\ trace[Len(trace)].host \in DOMAIN _HOST_LAST_CALL
    /\ POLITE_DELAY_SECONDS > 0

C15_FailedCalls ==
    \A i \in Events("raise") :
        /\ Cardinality({j \in CallOf(i) : trace[j].ev = "fetch"}) = 1
        /\ \A j \in CallOf(i) : trace[j].ev \notin {"write", "return"} /\ j <= i
        /\ threads[trace[i].t].call # trace[i].call

\* The step in which the fetch of a call fails.
C15_FailStep ==
    (Len(trace') = Len(trace) + 1 /\ trace'[Len(trace')].ev = "raise") => cache' = cache

\* C15: when the fetch inside cached_request fails, the error leaves cached_request
\* (the call is over, it returns nothing), the call made exactly one fetch attempt,
\* and the cache is left as it was: an absent entry stays absent, a stale entry
\* keeps its bytes and its write time.
C15_FetchFailure == [](C15_FailedCalls /\ CacheIsLastWrite) /\ [][C15_FailStep]_vars

\* One call failed with no entry stored, a later one failed on a stale entry.
C15_Witness ==
    /\ Cardinality(Events("raise")) = 2
    /\ Cardinality(Events("write")) = 1
    /\ trace[Len(trace)].ev = "raise"
    /\ WritesBefore(Len(trace)) # {}
    /\ AgeAt(Len(trace)) > MaxTtl
    /\ cache[trace[Len(trace)].key] = [bytes |-> LastWrite(Len(trace)).val,
                                        mtime |-> LastWrite(Len(trace)).at]
    /\ \E i \in Events("raise") : trace[i].key \notin DOMAIN cache

\* C16 as claimed: an entry is stale only once its age exceeds ttl, so a call that
\* finds an entry whose age is at most ttl is served from the cache.
C16_StaleOnlyAfterTtl ==
    \A i \in Events("miss") : WritesBefore(i) # {} => AgeAt(i) > TtlOf(i)

\* C16: an entry is stale once its age reaches ttl: a call is served from the cache
\* only if the age of the entry is less than ttl, and a call that finds an entry of
\* age ttl or more fetches again; when that fetch succeeds the entry is overwritten
\* with the new bytes and the time of the write, and the call returns the new bytes.
C16_StaleFromTtl ==
    /\ \A i \in Hits : WritesBefore(i) # {} /\ AgeAt(i) < TtlOf(i)
    /\ \A i \in Events("miss") : WritesBefore(i) # {} => AgeAt(i) >= TtlOf(i)
    /\ \A i \in Events("write") :
          /\ \E j \in CallOf(i) : j < i /\ trace[j].ev = "fetch"
          /\ \A j \in CallOf(i) : trace[j].ev # "raise"
          /\ WritesBefore(i) # {} => trace[i].val # LastWrite(i).val
          /\ trace[i + 1] = [trace[i] EXCEPT !.ev = "return"]
    /\ CacheIsLastWrite

\* An entry of age exactly ttl was found stale and replaced.
C16_Witness ==
    /\ Len(trace) >= 2
    /\ trace[Len(trace)].ev = "return"
    /\ \E i \in Events("miss") :
          /\ trace[i].call = trace[Len(trace)].call
          /\ WritesBefore(i) # {}
          /\ AgeAt(i) = MaxTtl
          /\ trace[Len(trace)].val # LastWrite(i).val
    /\ cache[trace[Len(trace)].key].bytes = trace[Len(trace)].val
    /\ cache[trace[Len(trace)].key].mtime = clock

\* Any two fetches sent to one host are at least the minimum interval apart.
FetchesSpaced ==
    \A i \in Events("fetch"), j \in Events("fetch") :
        (i < j /\ trace[i].host = trace[j].host)
            => trace[j].at - trace[i].at >= POLITE_DELAY_SECONDS

\* A call sleeps only for what is left of the interval since the last call recorded
\* for its own host.
SleepsForOwnHost ==
    \A i \in Events("sleep") :
        LET R == {j \in 1..(i - 1) : trace[j].ev = "record" /\ trace[j].host = trace[i].host}
        IN  /\ R # {}
            /\ trace[i].val = POLITE_DELAY_SECONDS - (trace[i].at - trace[SetMax(R)].at)
            /\ trace[i].val > 0

\* C17: with a positive minimum interval D and one sequential caller, any two
\* fetches that cached_request sends to the same host are at least D apart, and a
\* fetch is delayed only by an earlier call to its own host, never by a call to
\* another host.
C17_SequentialInterval ==
    POLITE_DELAY_SECONDS > 0 => FetchesSpaced /\ SleepsForOwnHost

\* A fetch to one host, one to another host that is not delayed, and a second fetch
\* to the first host that is delayed by the whole interval.
C17_Witness ==
    /\ POLITE_DELAY_SECONDS = MaxDelay
    /\ Cardinality(Events("fetch")) = 3
    /\ Cardinality(Events("sleep")) = 1
    /\ \E i \in Events("fetch"), j \in Events("fetch"), k \in Events("fetch") :
          /\ i < j /\ j < k
          /\ trace[i].host = trace[k].host
          /\ trace[j].host # trace[i].host
          /\ trace[j].at = trace[i].at
          /\ trace[k].at = trace[i].at + MaxDelay
          /\ \E q \in Events("sleep") : trace[q].call = trace[k].call /\ trace[q].val = MaxDelay

\* C18: when several requests run concurrently, in worker threads that share
\* _HOST_LAST_CALL, the fetches they send to one host are still at least the
\* minimum interval apart.
C18_AggregateInterval == POLITE_DELAY_SECONDS > 0 => FetchesSpaced

\* C19: two concurrent calls of cached_request for one fingerprint that both find
\* no fresh entry never both fetch and both write the entry.
C19_NoDoubleFetch ==
    \A i \in Events("write"), j \in Events("write") :
        (trace[i].call # trace[j].call /\ trace[i].key = trace[j].key)
            => \/ \A m \in CallOf(j) : m > i
               \/ \A m \in CallOf(i) : m > j

-----------------------------------------------------------------------------
(* communities.                                                            *)

\* The place in the algorithm's output of the community with these members.
FoundAt(c) == CHOOSE k \in DOMAIN cin.comms : cin.comms[k] = Range(c)

\* C20: communities() returns exactly the communities of the partition that have at
\* least min_size members, each once, ordered by non-increasing size with
\* communities of equal size in the order the algorithm found them, and a map in
\* which node n has index i exactly when n is a member of the i-th returned
\* community, counted from zero; a node of no returned community is not in the map.
C20_Communities ==
    cout # <<>> =>
        LET cl == cout.ret.comm_list
            m  == cout.ret.node2c
        IN  /\ \A p \in DOMAIN cl :
                  /\ Len(cl[p]) >= cin.min_size
                  /\ \E k \in DOMAIN cin.comms : cin.comms[k] = Range(cl[p])
                  /\ Len(cl[p]) = Cardinality(Range(cl[p]))
            /\ \A k \in DOMAIN cin.comms :
                  Cardinality(cin.comms[k]) >= cin.min_size
                      => Cardinality({p \in DOMAIN cl : Range(cl[p]) = cin.comms[k]}) = 1
            /\ \A p \in DOMAIN cl, q \in DOMAIN cl :
                  p < q => \/ Len(cl[p]) > Len(cl[q])
                           \/ Len(cl[p]) = Len(cl[q]) /\ FoundAt(cl[p]) < FoundAt(cl[q])
            /\ \A n \in CommIds, i \in 0..Cardinality(CommIds) :
                  (n \in DOMAIN m /\ m[n] = i) <=> (i + 1 \in DOMAIN cl /\ InSeq(n, cl[i + 1]))

\* A community below min_size is left out, two of equal size keep the order found,
\* which is not the order of their identifiers.
C20_Witness ==
    /\ cout # <<>>
    /\ cin.min_size = 2
    /\ cin.comms = <<{IdAB}, {IdC, IdD}, {IdA, IdB}>>
    /\ cout.ret.comm_list = <<<<IdC, IdD>>, <<IdA, IdB>>>>
    /\ DOMAIN cout.ret.node2c = {IdA, IdB, IdC, IdD}
    /\ cout.ret.node2c[IdA] = 1
    /\ cout.ret.node2c[IdC] = 0

-----------------------------------------------------------------------------
(* The Network build_network returns: its meta and its size.               *)

BuildDone == pc.stage = "done"

\* The budget was positive and the fused node count exceeded it.
BudgetExceeded == req.max_nodes > 0 /\ Len(nodes) > req.max_nodes

\* C28: in every Network build_network returns, meta.counts.nodes is the length
\* of the node list and meta.counts.edges the length of the edge list, and
\* meta.pruned is present (true, with meta.pruned_max_nodes the budget) exactly
\* when the budget was positive and the fused node count exceeded it.
C28_MetaCounts ==
    BuildDone =>
        /\ outcome.net.meta.counts = [nodes |-> Len(outcome.net.nodes),
                                      edges |-> Len(outcome.net.edges)]
        /\ ("pruned" \in DOMAIN outcome.net.meta) <=> BudgetExceeded
        /\ ("pruned_max_nodes" \in DOMAIN outcome.net.meta) <=> BudgetExceeded
        /\ BudgetExceeded => /\ outcome.net.meta.pruned
                             /\ outcome.net.meta.pruned_max_nodes = req.max_nodes

\* A pruned Network whose counts changed with the pruning.
C28_Witness ==
    /\ BuildDone
    /\ BudgetExceeded
    /\ outcome.net.meta.counts.nodes = req.max_nodes
    /\ outcome.net.meta.counts.nodes < Len(nodes)
    /\ outcome.net.meta.counts.edges < Len(edges)
    /\ outcome.net.meta.pruned_max_nodes = 2

\* An unpruned Network under a positive budget.
C28_WitnessUnpruned ==
    /\ BuildDone
    /\ req.max_nodes = 3
    /\ Len(nodes) = 3
    /\ "pruned" \notin DOMAIN outcome.net.meta

\* C30: for any seed list (seeds that are no node of the fused graph and seed
\* lists longer than the budget included), build_network called with a positive
\* budget b returns a Network of exactly min(b, fused node count) nodes.
C30_ExactBudget ==
    (BuildDone /\ req.max_nodes > 0) =>
        Len(outcome.net.nodes) = Min(req.max_nodes, Len(nodes))

\* Fewer nodes than the budget although enough exist: a seed is no node of the graph.
C30_Underfilled ==
    /\ BuildDone
    /\ req.max_nodes = 2
    /\ Len(nodes) = 3
    /\ req.seeds = <<IdA, IdB>>
    /\ ~HasNode(nodes, IdB)
    /\ Len(outcome.net.nodes) = 1

\* More nodes than the budget: every seed is kept.
C30_Overfilled ==
    /\ BuildDone
    /\ req.max_nodes = 1
    /\ req.seeds = <<IdA, IdB>>
    /\ Len(outcome.net.nodes) = 2

-----------------------------------------------------------------------------
(* Fusion in two orders.                                                   *)

KeysOf(es) == {es[i].key : i \in DOMAIN es}

\* The support and score stored under each key.
Aggregates(es) == {<<es[i].key, es[i].e.support, es[i].e.score>> : i \in DOMAIN es}

\* C29: folding two permutations of the same records gives the same set of node
\* identifiers, the same set of edge keys and, for every key, the same support
\* and the same score; and build_network on the same adapter responses gives the
\* same nodes and the same edges whatever the order in which the sources are listed.
C29_OrderIndependent ==
    oout # <<>> =>
        /\ Range(IdsOf(oout.a.nodes)) = Range(IdsOf(oout.b.nodes))
        /\ KeysOf(oout.a.edges) = KeysOf(oout.b.edges)
        /\ Aggregates(oout.a.edges) = Aggregates(oout.b.edges)
        /\ oin.mode = "sources" => oout.a = oout.b

\* Three records of one key folded in reverse: the same support and score, while
\* the first-sighting attributes (orientation, meta, a node's kind) differ.
C29_Witness ==
    /\ oout # <<>>
    /\ oin.mode = "records"
    /\ oout.perm = <<3, 2, 1>>
    /\ Len(oout.a.edges) = 2
    /\ oout.a.edges[1].e.support = 2 /\ oout.a.edges[1].e.score = Some(9)
    /\ oin.recs[1].score = Some(4) /\ oin.recs[3].score = Some(9)
    /\ oout.a.edges[1].e.source # oout.b.edges[2].e.source
    /\ oout.a.edges[1].e.meta # oout.b.edges[2].e.meta
    /\ \E i \in DOMAIN oout.a.nodes, j \in DOMAIN oout.b.nodes :
          oout.a.nodes[i].id = oout.b.nodes[j].id /\ oout.a.nodes[i].kind # oout.b.nodes[j].kind

\* Three sources listed in reverse of the order build_network runs them in.
C29_WitnessSources ==
    /\ oout # <<>>
    /\ oin.mode = "sources"
    /\ oin.sources = <<"encori_rna_rna", "encori_rbp_by_target", "string_ppi">>
    /\ oout.perm = <<3, 2, 1>>
    /\ Len(oout.a.nodes) = 4
    /\ Len(oout.a.edges) >= 3

-----------------------------------------------------------------------------
(* The regulon overlap scorer.                                             *)

RegDone == rout # <<>>

\* C24: _default_min_coverage_v1(mode, n) returns n for mode "strict", the
\* ceiling of n/2 (the least k with 2k >= n) for mode "majority" and 1 for mode
\* "any", for every seed count n >= 1.
C24_DefaultMinCoverage ==
    (RegDone /\ rin.op = "default" /\ rin.n >= 1) =>
        /\ rin.mode = ModeStrict => rout.ret = rin.n
        /\ rin.mode = ModeMajority => /\ 2 * rout.ret >= rin.n
                                      /\ 2 * (rout.ret - 1) < rin.n
        /\ rin.mode = ModeAny => rout.ret = 1

\* Three seeds under "majority": two of them.
C24_Witness ==
    /\ RegDone
    /\ rin.op = "default"
    /\ rin.mode = ModeMajority
    /\ rin.n = 3
    /\ rout.ret = 2

Scored == RegDone /\ rin.op \in {"regulon", "overlap"}

\* The seeds of the request up to letter case, blanks dropped.
CaseDistinct(seeds) ==
    {Upper(Strip(seeds[i])) : i \in {j \in DOMAIN seeds : Strip(seeds[j]) # <<>>}}

\* C21: _regulon_overlap_v1 deduplicates the seeds after case normalization,
\* keeping first-seen order: seeds equal up to letter case count as one seed in
\* seed_count, in the coverage and in the intersection; with zero seeds the
\* candidate list and the intersection are empty.
C21_SeedsDedupByCase ==
    Scored =>
        /\ rout.ret.seed_count = Cardinality(CaseDistinct(rin.seeds))
        /\ \A i, j \in DOMAIN rout.ret.seeds :
              Upper(rout.ret.seeds[i]) = Upper(rout.ret.seeds[j]) => i = j
        /\ \A i \in DOMAIN rout.out :
              rout.out[i].coverage <= Cardinality(CaseDistinct(rin.seeds))
        /\ rout.ret.seed_count = 0 => /\ rout.ret.top_interactors = <<>>
                                      /\ rout.ret.intersection_top = <<>>

\* Seeds "A" and "a": two seeds, and a candidate that both reach has coverage 2.
C21_TwoCases ==
    /\ Scored
    /\ rin.seeds = <<IdA, IdLa>>
    /\ rout.ret.seed_count = 2
    /\ rout.ret.seeds = <<IdA, IdLa>>
    /\ \E i \in DOMAIN rout.out : rout.out[i].node = IdC /\ rout.out[i].coverage = 2

\* The part of C21 that the code keeps: exact duplicates (after strip) count once,
\* in first-seen order, and a request without seeds gets empty lists.
C21_ExactDedup ==
    Scored =>
        /\ rout.ret.seeds = CleanSeeds(rin.seeds)
        /\ NoDuplicates(rout.ret.seeds)
        /\ rout.ret.seed_count = Len(rout.ret.seeds)
        /\ rout.ret.seed_count = 0 => /\ rout.ret.top_interactors = <<>>
                                      /\ rout.ret.intersection_top = <<>>

\* The network has an edge between s and n.
SharesEdge(s, n) ==
    \E i \in DOMAIN rin.netw.edges :
        {rin.netw.edges[i].source, rin.netw.edges[i].target} = {s, n}

\* The distinct seeds of the call that share an edge with n.
SeedsHitting(n) == {s \in Range(rout.ret.seeds) : SharesEdge(s, n)}

\* C22: every candidate of _regulon_overlap_v1 has as coverage the number of
\* distinct seeds that share an edge with it, at least min_coverage and at most
\* the seed count; with exclude_seed_nodes no candidate is a seed; and every
\* non-seed neighbour of a seed whose coverage reaches min_coverage is a candidate.
C22_Coverage ==
    Scored =>
        /\ \A i \in DOMAIN rout.out :
              /\ rout.out[i].coverage = Cardinality(SeedsHitting(rout.out[i].node))
              /\ rout.out[i].coverage >= rout.ret.min_coverage
              /\ rout.out[i].coverage <= rout.ret.seed_count
              /\ rin.exclude_seed_nodes => rout.out[i].node \notin Range(rout.ret.seeds)
        /\ \A i \in DOMAIN rout.ret.top_interactors :
              \E j \in DOMAIN rout.out : rout.out[j] = rout.ret.top_interactors[i]
        /\ \A n \in NodeIdsOf(rin.netw) \ Range(rout.ret.seeds) :
              (SeedsHitting(n) # {}
                 /\ Cardinality(SeedsHitting(n)) >= rout.ret.min_coverage)
              => \E i \in DOMAIN rout.out : rout.out[i].node = n

\* Seeds A and B: C is reached from both (once as the source of its edge), D from
\* A only and is discarded under min_coverage 2.
C22_Witness ==
    /\ Scored
    /\ rout.ret.seeds = <<IdA, IdB>>
    /\ rout.ret.min_coverage = 2
    /\ Len(rout.out) = 1
    /\ rout.out[1].node = IdC
    /\ rout.out[1].coverage = 2
    /\ SeedsHitting(IdD) = {IdA}
    /\ \E i \in DOMAIN rin.netw.edges :
          rin.netw.edges[i].source = IdC /\ rin.netw.edges[i].target = IdB

\* The sort key of a candidate without the node identifier.
KeyOf(x) == <<-x.coverage, -x.specificity_score, -x.confidence_sum, -x.db_support>>

TupleLess(a, b) ==
    \E k \in DOMAIN a : a[k] < b[k] /\ \A m \in 1..(k - 1) : a[m] = b[m]

\* x ranks strictly before y.
RanksBefore(x, y) ==
    \/ TupleLess(KeyOf(x), KeyOf(y))
    \/ KeyOf(x) = KeyOf(y) /\ StrLess(x.node, y.node)

\* A ranked list without the evidence lists.
Ranking(out) == [i \in DOMAIN out |-> [out[i] EXCEPT !.evidence = <<>>]]

\* The call of this state on the same Network with its edge list in the order p.
Reordered(p) ==
    RegulonCall([rin.netw EXCEPT !.edges = Permute(rin.netw.edges, p)], rin.seeds,
                rout.ret.min_coverage, rin.top, rin.exclude_seed_nodes)

\* Two reorderings of n positions that generate every permutation: the exchange
\* of the first two, and the rotation by one.
SwapFirst(n) == [i \in 1..n |-> IF i = 1 THEN 2 ELSE IF i = 2 THEN 1 ELSE i]
Rotate(n)    == [i \in 1..n |-> IF i = n THEN 1 ELSE i + 1]
Generators(n) == IF n < 2 THEN {} ELSE {SwapFirst(n), Rotate(n)}

\* C23: the candidates are sorted by coverage descending, then specificity,
\* confidence-sum and database diversity descending, then node identifier
\* ascending; any two of them are strictly ordered (no node twice), and the ranking
\* does not depend on the order of the Network's edge list.  Every order of an
\* edge list is the input of a state, so it suffices that in each state the
\* ranking is unchanged when the first two edges are exchanged and when the list
\* is rotated.
C23_Ranking ==
    Scored =>
        /\ \A i, j \in DOMAIN rout.out : i < j => RanksBefore(rout.out[i], rout.out[j])
        /\ \A i, j \in DOMAIN rout.out : rout.out[i].node = rout.out[j].node => i = j
        /\ \A p \in Generators(Len(rin.netw.edges)) :
              /\ Ranking(Reordered(p).out) = Ranking(rout.out)
              /\ Ranking(Reordered(p).ret.top_interactors)
                    = Ranking(rout.ret.top_interactors)

\* Two candidates that tie on the four numbers: C comes before D although D's
\* edge is first in the edge list.
C23_Witness ==
    /\ Scored
    /\ Len(rout.out) = 2
    /\ KeyOf(rout.out[1]) = KeyOf(rout.out[2])
    /\ rout.out[1].node = IdC /\ rout.out[2].node = IdD
    /\ rin.netw.edges[1].target = IdD
    /\ rin.netw.edges[2].target = IdC
    /\ rout.out[1].kind # rout.out[2].kind

\* Candidates ranked by specificity against their edge order.
C23_WitnessSpecificity ==
    /\ Scored
    /\ Len(rout.out) = 2
    /\ rout.out[1].coverage = rout.out[2].coverage
    /\ rout.out[1].specificity_score > rout.out[2].specificity_score
    /\ rout.out[1].confidence_sum < rout.out[2].confidence_sum
    /\ StrLess(rout.out[2].node, rout.out[1].node)

\* A /regulon request in mode "strict" that leaves min_coverage to the mode.
StrictRequest ==
    /\ RegDone
    /\ rin.op = "regulon"
    /\ Lower(rin.mode) = ModeStrict
    /\ rin.min_coverage = None

Returned(n) == \E i \in DOMAIN rout.ret.top_interactors : rout.ret.top_interactors[i].node = n

\* C25: a regulon request in mode "strict" without min_coverage returns the
\* intersection only: every returned candidate is connected to all distinct seeds
\* of the request, and every non-seed node connected to all of them is returned
\* (up to top), for any seed list, one that repeats a seed included.
C25_StrictIsIntersection ==
    StrictRequest =>
        /\ \A i \in DOMAIN rout.ret.top_interactors :
              SeedsHitting(rout.ret.top_interactors[i].node) = Range(rout.ret.seeds)
        /\ \A n \in NodeIdsOf(rin.netw) \ Range(rout.ret.seeds) :
              (rout.ret.seeds # <<>> /\ SeedsHitting(n) = Range(rout.ret.seeds))
              => (Returned(n) \/ Len(rout.ret.top_interactors) = rin.top)

\* The seed A given twice: C is connected to every distinct seed, nothing is returned.
C25_RepeatedSeed ==
    /\ StrictRequest
    /\ rin.seeds = <<IdA, IdA>>
    /\ rout.ret.seeds = <<IdA>>
    /\ rout.ret.min_coverage = 2
    /\ SeedsHitting(IdC) = {IdA}
    /\ rout.ret.top_interactors = <<>>
    /\ rout.ret.total_candidates = 0

\* With the seeds of the request distinct (as given, after strip), strict mode
\* does return the intersection.
C25_DistinctSeeds ==
    (StrictRequest /\ Len(rout.ret.seeds) = Len(rin.seeds)) =>
        /\ \A i \in DOMAIN rout.ret.top_interactors :
              SeedsHitting(rout.ret.top_interactors[i].node) = Range(rout.ret.seeds)
        /\ \A n \in NodeIdsOf(rin.netw) \ Range(rout.ret.seeds) :
              SeedsHitting(n) = Range(rout.ret.seeds) => Returned(n)

\* The ranked candidates whose coverage is the number of distinct seeds.
FullCoverage == SelectSeq(rout.out, LAMBDA x : x.coverage = rout.ret.seed_count)

IsPrefix(a, b) == Len(a) <= Len(b) /\ a = SubSeq(b, 1, Len(a))

\* C26: top_interactors is the first top entries of the ranked candidate list
\* (all of them if fewer); the intersection reported is exactly the ranked
\* candidates whose coverage is the number of distinct seeds, in ranked order,
\* and it is a prefix of the ranked list.
C26_TopAndIntersection ==
    (Scored /\ rout.ret.seed_count > 0) =>
        /\ IsPrefix(rout.ret.top_interactors, rout.out)
        /\ Len(rout.ret.top_interactors) = Min(rin.top, Len(rout.out))
        /\ rout.ret.intersection_top = FullCoverage
        /\ IsPrefix(rout.ret.intersection_top, rout.out)

\* One seed, top 1: C and D both have the coverage 1 of the intersection, and
\* only C is reported.
C26_CutIntersection ==
    /\ Scored
    /\ rin.top = 1
    /\ rout.ret.seed_count = 1
    /\ Len(FullCoverage) = 2
    /\ rout.ret.intersection_count = 2
    /\ Len(rout.ret.intersection_top) = 1

\* What the code does report: the first top entries of the ranked list, the
\* first top entries of the full-coverage candidates, which are a prefix of the
\* ranked list, and the number of all of them.
C26_CutToTop ==
    (Scored /\ rout.ret.seed_count > 0) =>
        /\ IsPrefix(rout.ret.top_interactors, rout.out)
        /\ Len(rout.ret.top_interactors) = Min(rin.top, Len(rout.out))
        /\ IsPrefix(FullCoverage, rout.out)
        /\ IsPrefix(rout.ret.intersection_top, FullCoverage)
        /\ Len(rout.ret.intersection_top) = Min(rin.top, Len(FullCoverage))
        /\ rout.ret.intersection_count = Len(FullCoverage)
        /\ rout.ret.total_candidates = Len(rout.out)

\* The weights of the edges between s and n.
WeightsBetween(s, n) ==
    {_reg_edge_weight_v1(rin.netw.edges[i]) :
        i \in {j \in DOMAIN rin.netw.edges :
                  {rin.netw.edges[j].source, rin.netw.edges[j].target} = {s, n}}}

\* The best weight between each seed and n, summed over the seeds that hit n.
BestSum(n) ==
    SumSeq([k \in DOMAIN rout.ret.seeds |->
               IF WeightsBetween(rout.ret.seeds[k], n) = {} THEN 0
               ELSE SetMax(WeightsBetween(rout.ret.seeds[k], n))])

\* C27: the confidence-sum of a candidate is the sum, over the seeds that hit it,
\* of the largest weight of an edge between that seed and the candidate (parallel
\* edges give their maximum, not their sum); the confidence-mean is the sum
\* divided by the coverage (rounded to the unit of the model); and every edge
\* weight is in [0, 1], that is 0..1000 thousandths.
C27_Confidence ==
    Scored =>
        /\ \A i \in DOMAIN rin.netw.edges :
              _reg_edge_weight_v1(rin.netw.edges[i]) \in 0..1000
        /\ \A i \in DOMAIN rout.out :
              LET x == rout.out[i]
              IN  /\ x.confidence_sum = BestSum(x.node)
                  /\ x.coverage > 0
                  /\ 2 * (x.confidence_mean * x.coverage - x.confidence_sum) <= x.coverage
                  /\ 2 * (x.confidence_sum - x.confidence_mean * x.coverage) <= x.coverage

\* C is hit by A over two parallel edges (0.9 and 0.574) and by B over one edge
\* of raw score 100, taken as 0.1: the sum is 0.9 + 0.1 and the mean 0.5.
C27_Witness ==
    /\ Scored
    /\ rout.ret.seeds = <<IdA, IdB>>
    /\ Len(rout.out) = 1
    /\ rout.out[1].node = IdC
    /\ rout.out[1].coverage = 2
    /\ Len(rout.out[1].evidence) = 3
    /\ WeightsBetween(IdA, IdC) = {900, 574}
    /\ WeightsBetween(IdB, IdC) = {100}
    /\ rout.out[1].confidence_sum = 1000
    /\ rout.out[1].confidence_mean = 500

====
